---- MODULE Spec2Model ----
(***************************************************************************)
(* A model of passari: the MuseumPlus session key cache                    *)
(* (passari/museumplus/connection.py), the concurrent download of a        *)
(* package (passari/utils.py, passari/dpres/package.py,                    *)
(* passari/museumplus/db.py) and the SIP assembly pipeline                 *)
(* (passari/dpres/package.py, scripts.py, errors.py).                      *)
(***************************************************************************)
EXTENDS Integers, Sequences, FiniteSets, TLC

(***************************************************************************)
(* Bounds of the model                                                     *)
(***************************************************************************)
\* number of processes calling get_museum_session_key
NumCallers == 2
\* number of session keys the MuseumPlus service issues in one behaviour
MaxKeys == 3

\* number of attachment ids and of collection activity ids a record refers to
NumIds == 2
\* length, in chunks of CHUNK_SIZE, of the longest attachment body
MaxChunks == 2
\* number of download_package calls on one package directory
MaxCycles == 2

\* number of attachments of the package generate_sip assembles
MaxFiles == 2
\* number of collection activities of that package
MaxActivities == 1

\* number of MuseumPlus objects (record ids)
NumObjects == 2
\* number of different times of day a date argument can have
MaxDate == 2

\* number of fields (child elements) of a document that is hashed
MaxFields == 2

\* number of requests sent through one MuseumPlus session
NumResponses == 2

\* number of awaitables given to one gather_or_raise_first
NumAws == 4

\* size of a SIP archive, in blocks written by sftp.put
MaxBlocks == 3

\* number of times the results of one search response are read
MaxParses == 2

\* number of generate_sip calls on one package directory
MaxRuns == 4

\* connection.py:17
SESSION_KEY_REGENERATE_TIMEOUT == 600

VARIABLES
    \* ---- session key cache ----
    keyFile,     \* the <host>.session file: [exists, text, mtime]
    clock,       \* time.time()
    lock,        \* owner of the <host>.lock FileLock, 0 when free
    issued,      \* number of keys the service has issued (credential exchanges)
    gen,         \* number of completed write_text calls on the key file
    callers,     \* one record per process inside get_museum_session_key
    \* ---- download of a package ----
    att,         \* sip/attachments/<id>/: [dir, xml, payload, temp]
    act,         \* sip/collection_activities/<id>/: [dir, xml]
    lido,        \* sip/reports/lido.xml: "absent", "partial" or "complete"
    refs,        \* attachment_ids and collection_activity_ids of the record
    fpc,         \* where download_package is
    tasks,       \* the tasks of the running gather_or_raise_first
    requests,    \* the requests sent to MuseumPlus in this download_package
    raised,      \* the exception download_package raised
    wake,        \* what gather_or_raise_first found when it resumed (history)
    before,      \* the package directory when download_package began (history)
    rerun,       \* the previous download_package returned, for the same ids (history)
    cycles,      \* download_package calls so far
    \* ---- SIP assembly ----
    payload,     \* the file of each sip/attachments/<id>/: [suffix, inner]
    events,      \* the event types get_premis_events returns
    activities,  \* number of directories in sip/collection_activities/
    fs,          \* per attachment: "file", "extracting" (<name>.extract
                 \* exists) or "dir" (the archive was replaced)
    all_files,   \* MuseumObjectPackage.all_files
    todo,        \* what the running loop of generate_sip has left
    stage,       \* the last stage generate_sip completed, or "Failed"
    cmds,        \* the run_command calls of this run, in order: [cmd, event,
                 \* target, exited, rc, stderr]
    log,         \* the log files run_command appended to, in order
    error,       \* the exception generate_sip raised
    disk,        \* the rest of the package directory: [workspace, logs, sip]
    \* ---- error detectors ----
    failure,     \* the CalledProcessError given to raise_for_preservation_error
    classified,  \* what raise_for_preservation_error did with it
    \* ---- arguments of create_sip ----
    call,        \* how the SIP creation was called, and with what
    frame,       \* update, create_date and modify_date of the running function
    cpc,         \* the function that runs: "cli", "create_sip",
                 \* "generate_sip", "compile_mets" or "done"
    mets,        \* the arguments of the compile-mets command
    \* ---- PREMIS events ----
    museum_package, \* the downloaded package: [museum_object, attachments,
                 \* collection_activities], each with its created_date and
                 \* created_user
    premis_events,\* what get_premis_events did: [raised, events]
    previous_events, \* what the get_premis_events call before that did
    \* ---- packages of one package directory ----
    museum_packages, \* the two MuseumObjectPackage objects: [object_id, sip_id]
    package_dir, \* what is at each path below package_dir
    ppc,         \* where the create_sip of each of the two is
    \* ---- change-detection hash ----
    documents,   \* the two XML documents that are compared
    roots,       \* the element trees parsed from them, given to get_xml_hash
    hashes,      \* what get_xml_hash returned for each
    \* ---- refresh of the session key file ----
    responses,   \* the requests of a session: [status, how, pc, chunks,
                 \* response_started, touches]
    sent,        \* number of requests sent to MuseumPlus
    \* ---- gather_or_raise_first ----
    aws,         \* the tasks of a gather_or_raise_first call: [pc, kind]
    gpc,         \* where the call is: "waiting", "returned" or "raised"
    woke,        \* the tasks as the call found them when it resumed (history)
    gathered,    \* what the call raised and logged: [exc, logged]
    \* ---- clean_attachments ----
    pdirs,       \* names of the directories under attachment_dir
    pkeep,       \* ids of self.attachments
    prune,       \* clean_attachments: [pc, todo, path], path 0 outside the loop
    gone,        \* directories another process removed after the glob (history)
    \* ---- download_attachment with its filename check ----
    natt,        \* per attachment: [ascii, xml, requested, payload]
    ntasks,      \* the download_attachment tasks: [pc, kind, exc]
    npc,         \* download_attachments: "gathering", "done" or "raised"
    nwoke,       \* the tasks as gather_or_raise_first found them (history)
    nraised,     \* the exception download_attachments raised
    \* ---- generate_sip again and again on one package ----
    rfs,         \* per zip attachment: [archive, extract]: the path of the
                 \* archive is a "file" or a "dir", <archive>.extract exists
    rworkspace,  \* the archives with a decompression event in the workspace
    rtar,        \* the run whose tar wrote sip_archive_path, 0 for no file
    rstage,      \* where the running generate_sip is, or how it ended
    rtodo,       \* the archive_files the extraction loop has left
    rerror,      \* the exception generate_sip raised
    expanded,    \* the archives this run has expanded (history)
    runs,        \* generate_sip calls so far
    \* ---- results of a search response ----
    response,    \* the moduleItem of a search response as it was received
    etree,       \* the element tree of it that ObjectSearchResponse holds
    results,     \* what each reading of .results returned for the item
    \* ---- submit_sip and the remote transfer directory ----
    spc,         \* position of submit_sip
    sarchive,    \* the SIP archive in the package directory
    stemp,       \* remote transfer/<sip_filename>.incomplete
    sfinal,      \* remote transfer/<sip_filename>
    sruns,       \* number of submit_sip calls so far
    \* ---- confirm_sip ----
    confpc,         \* position of confirm_sip
    cstatus,     \* the status argument
    clogentries, \* CONFIG["museumplus"]["add_log_entries"]
    cfield,      \* the preservation field of the object in MuseumPlus
    cevents,     \* the events add_preservation_event has read
    cgzipped,    \* the logs of the package are gzipped
    carchived,   \* the logs are in the archive directory
    cstored,     \* the event of this call is in the preservation field
    cdir         \* the package directory exists

keyVars == <<keyFile, clock, lock, issued, gen, callers>>

fetchVars == <<att, act, lido, refs, fpc, tasks, requests, raised, wake,
               before, rerun, cycles>>

sipVars == <<payload, events, activities, fs, all_files, todo, stage, cmds,
             log, error, disk>>

classifyVars == <<failure, classified>>

callVars == <<call, frame, cpc, mets>>

premisVars == <<museum_package, premis_events, previous_events>>

variantVars == <<museum_packages, package_dir, ppc>>

hashVars == <<documents, roots, hashes>>

touchVars == <<responses, sent>>

gatherVars == <<aws, gpc, woke, gathered>>

pruneVars == <<pdirs, pkeep, prune, gone>>

nameVars == <<natt, ntasks, npc, nwoke, nraised>>

rerunVars == <<rfs, rworkspace, rtar, rstage, rtodo, rerror, expanded, runs>>

searchVars == <<response, etree, results>>

submitVars == <<spc, sarchive, stemp, sfinal, sruns>>

confirmVars == <<confpc, cstatus, clogentries, cfield, cevents, cgzipped, carchived, cstored, cdir>>

notKeyVars == <<fetchVars, sipVars, classifyVars, callVars, premisVars, variantVars, hashVars, touchVars, gatherVars, pruneVars, nameVars, rerunVars, searchVars, submitVars, confirmVars>>

notFetchVars == <<keyVars, sipVars, classifyVars, callVars, premisVars, variantVars, hashVars, touchVars, gatherVars, pruneVars, nameVars, rerunVars, searchVars, submitVars, confirmVars>>

notSipVars == <<keyVars, fetchVars, classifyVars, callVars, premisVars, variantVars, hashVars, touchVars, gatherVars, pruneVars, nameVars, rerunVars, searchVars, submitVars, confirmVars>>

notClassifyVars == <<keyVars, fetchVars, sipVars, callVars, premisVars, variantVars, hashVars, touchVars, gatherVars, pruneVars, nameVars, rerunVars, searchVars, submitVars, confirmVars>>

notCallVars == <<keyVars, fetchVars, sipVars, classifyVars, premisVars, variantVars, hashVars, touchVars, gatherVars, pruneVars, nameVars, rerunVars, searchVars, submitVars, confirmVars>>

notPremisVars == <<keyVars, fetchVars, sipVars, classifyVars, callVars, variantVars, hashVars, touchVars, gatherVars, pruneVars, nameVars, rerunVars, searchVars, submitVars, confirmVars>>

notVariantVars == <<keyVars, fetchVars, sipVars, classifyVars, callVars, premisVars, hashVars, touchVars, gatherVars, pruneVars, nameVars, rerunVars, searchVars, submitVars, confirmVars>>

notHashVars == <<keyVars, fetchVars, sipVars, classifyVars, callVars, premisVars, variantVars, touchVars, gatherVars, pruneVars, nameVars, rerunVars, searchVars, submitVars, confirmVars>>

notTouchVars == <<keyVars, fetchVars, sipVars, classifyVars, callVars, premisVars, variantVars, hashVars, gatherVars, pruneVars, nameVars, rerunVars, searchVars, submitVars, confirmVars>>

aroundTouchVars == <<lock, issued, gen, callers, fetchVars, sipVars,
                    classifyVars, callVars, premisVars, variantVars, hashVars,
                    gatherVars, pruneVars, nameVars, rerunVars, searchVars,
                    submitVars, confirmVars>>

notGatherVars == <<keyVars, fetchVars, sipVars, classifyVars, callVars, premisVars, variantVars, hashVars, touchVars, pruneVars, nameVars, rerunVars, searchVars, submitVars, confirmVars>>

notPruneVars == <<keyVars, fetchVars, sipVars, classifyVars, callVars, premisVars, variantVars, hashVars, touchVars, gatherVars, nameVars, rerunVars, searchVars, submitVars, confirmVars>>

notNameVars == <<keyVars, fetchVars, sipVars, classifyVars, callVars, premisVars, variantVars, hashVars, touchVars, gatherVars, pruneVars, rerunVars, searchVars, submitVars, confirmVars>>

notRerunVars == <<keyVars, fetchVars, sipVars, classifyVars, callVars, premisVars, variantVars, hashVars, touchVars, gatherVars, pruneVars, nameVars, searchVars, submitVars, confirmVars>>

notSearchVars == <<keyVars, fetchVars, sipVars, classifyVars, callVars, premisVars, variantVars, hashVars, touchVars, gatherVars, pruneVars, nameVars, rerunVars, submitVars, confirmVars>>

notSubmitVars == <<keyVars, fetchVars, sipVars, classifyVars, callVars, premisVars, variantVars, hashVars, touchVars, gatherVars, pruneVars, nameVars, rerunVars, searchVars, confirmVars>>

notConfirmVars == <<keyVars, fetchVars, sipVars, classifyVars, callVars, premisVars, variantVars, hashVars, touchVars, gatherVars, pruneVars, nameVars, rerunVars, searchVars, submitVars>>

vars == <<keyFile, clock, lock, issued, gen, callers,
          att, act, lido, refs, fpc, tasks, requests, raised, wake,
          before, rerun, cycles,
          payload, events, activities, fs, all_files, todo, stage, cmds,
          log, error, disk,
          failure, classified,
          call, frame, cpc, mets,
          museum_package, premis_events, previous_events,
          museum_packages, package_dir, ppc,
          documents, roots, hashes,
          responses, sent,
          aws, gpc, woke, gathered,
          pdirs, pkeep, prune, gone,
          natt, ntasks, npc, nwoke, nraised,
          rfs, rworkspace, rtar, rstage, rtodo, rerror, expanded, runs,
          response, etree, results,
          spc, sarchive, stemp, sfinal, sruns,
          confpc, cstatus, clogentries, cfield, cevents, cgzipped, carchived, cstored, cdir>>

(***************************************************************************)
(* Session key cache: passari/museumplus/connection.py                     *)
(***************************************************************************)
Callers == 1..NumCallers

\* Python's None and a str read from / written to the key file.  Text 0 is
\* the empty string (a file that was truncated and not yet written), text 1
\* is the key persisted before the behaviour starts, 2.. are keys issued by
\* the service during the behaviour.
None == [some |-> FALSE, text |-> 0]
Str(n) == [some |-> TRUE, text |-> n]

\* key_path.read_text(), None standing for FileNotFoundError
ReadText(f) == IF f.exists THEN Str(f.text) ELSE None

\* connection.py:140
MaybeExpiredAtOrAfter(now, session_time) ==
    now - SESSION_KEY_REGENERATE_TIMEOUT >= session_time

MaybeExpired(now, session_time) ==
    now - SESSION_KEY_REGENERATE_TIMEOUT > session_time

\* the instants at which the processes look at the clock: the persisted key
\* is written at 0, and the timeout is passed at its boundary, once and twice
Instants ==
    { 0,
      SESSION_KEY_REGENERATE_TIMEOUT - 1,
      SESSION_KEY_REGENERATE_TIMEOUT,
      SESSION_KEY_REGENERATE_TIMEOUT + 1,
      2 * SESSION_KEY_REGENERATE_TIMEOUT + 2 }

InitCaller ==
    [ pc |-> "start",
      session_time |-> 0,
      session_key |-> None,
      previous_key |-> None,
      new_key |-> 0,
      ret |-> "none",          \* where generate_museum_session_key returns to
      result |-> None,
      \* history of the call
      path |-> "none",         \* "cached", "refresh" or "nofile"
      age |-> 0,               \* time.time() - session_time at line 140
      statClock |-> 0,
      statGen |-> 0,
      exchanged |-> 0,         \* credential exchanges completed by the call
      attempts |-> 0,          \* credential exchanges started by the call
      wrote |-> FALSE ]        \* the call wrote the key file

KeyInit ==
    /\ keyFile \in { [exists |-> FALSE, text |-> 0, mtime |-> 0],
                     [exists |-> TRUE, text |-> 1, mtime |-> 0] }
    /\ clock = 0
    /\ lock = 0
    /\ issued = 0
    /\ gen = 0
    /\ callers = [c \in Callers |-> InitCaller]

\* time passes
Tick ==
    /\ \E t \in Instants : t > clock /\ clock' = t
    /\ UNCHANGED <<keyFile, lock, issued, gen, callers>>
    /\ UNCHANGED notKeyVars

\* get_museum_session_key, line 127: key_path.stat().st_mtime; on
\* FileNotFoundError lines 131-133: session_time = time.time() and
\* generate_museum_session_key(previous_key=None) is called
KeyStat(c) ==
    /\ callers[c].pc = "start"
    /\ callers' = [callers EXCEPT ![c] =
         IF keyFile.exists
         THEN [@ EXCEPT !.pc = "read", !.session_time = keyFile.mtime,
                        !.statClock = clock, !.statGen = gen]
         ELSE [@ EXCEPT !.pc = "lock", !.session_time = clock,
                        !.previous_key = None, !.ret = "nofile",
                        !.path = "nofile",
                        !.statClock = clock, !.statGen = gen]]
    /\ UNCHANGED <<keyFile, clock, lock, issued, gen>>
    /\ UNCHANGED notKeyVars

\* What get_museum_session_key does with a session key in hand, lines
\* 140-147: regenerate it under the lock if it could have expired, else
\* return it.
AfterKey(r, key, now) ==
    IF MaybeExpired(now, r.session_time)
    THEN [r EXCEPT !.pc = "lock", !.session_key = key, !.previous_key = key,
                   !.ret = "stale",
                   !.path = IF r.path = "none" THEN "refresh" ELSE r.path,
                   !.age = IF r.path = "none" THEN now - r.session_time ELSE r.age]
    ELSE [r EXCEPT !.pc = "done", !.session_key = key, !.result = key,
                   !.path = IF r.path = "none" THEN "cached" ELSE r.path,
                   !.age = IF r.path = "none" THEN now - r.session_time ELSE r.age]

\* get_museum_session_key, line 128: key_path.read_text(), then lines 140-147
KeyRead(c) ==
    /\ callers[c].pc = "read"
    /\ callers' = [callers EXCEPT ![c] = AfterKey(@, ReadText(keyFile), clock)]
    /\ UNCHANGED <<keyFile, clock, lock, issued, gen>>
    /\ UNCHANGED notKeyVars

\* generate_museum_session_key returns key to get_museum_session_key: to
\* line 133 (then lines 140-147) or to line 143 (then line 147)
Return(r, key, now) ==
    IF r.ret = "nofile"
    THEN AfterKey(r, key, now)
    ELSE [r EXCEPT !.pc = "done", !.session_key = key, !.result = key]

\* generate_museum_session_key, lines 78-88: take the FileLock, read the key
\* again and return it if it is not previous_key
KeyLock(c) ==
    /\ callers[c].pc = "lock"
    /\ lock = 0
    /\ IF ReadText(keyFile) # callers[c].previous_key
       THEN /\ callers' = [callers EXCEPT ![c] = Return(@, ReadText(keyFile), clock)]
            /\ UNCHANGED lock
       ELSE /\ callers' = [callers EXCEPT ![c] =
                 [@ EXCEPT !.pc = "exchange", !.attempts = @ + 1]]
            /\ lock' = c
    /\ UNCHANGED <<keyFile, clock, issued, gen>>
    /\ UNCHANGED notKeyVars

\* generate_museum_session_key, lines 96-108: the service answers the
\* /session request with a new key
KeyExchangeOk(c) ==
    /\ callers[c].pc = "exchange"
    /\ issued < MaxKeys
    /\ issued' = issued + 1
    /\ callers' = [callers EXCEPT ![c] =
         [@ EXCEPT !.pc = "write", !.new_key = issued + 2,
                   !.exchanged = @ + 1]]
    /\ UNCHANGED <<keyFile, clock, lock, gen>>
    /\ UNCHANGED notKeyVars

\* the FileLock is released when an exception leaves the `with lock:` block
KeyExchangeFailKeepsLock(c) ==
    /\ callers[c].pc = "exchange"
    /\ callers' = [callers EXCEPT ![c] = [@ EXCEPT !.pc = "raised"]]
    /\ UNCHANGED <<keyFile, clock, lock, issued, gen>>
    /\ UNCHANGED notKeyVars

\* generate_museum_session_key, line 104: retrieve_xml raises (the request
\* fails, raise_for_status, or the answer holds no key); the exception
\* leaves the `with lock:` block and get_museum_session_key
KeyExchangeFail(c) ==
    /\ callers[c].pc = "exchange"
    /\ lock' = 0
    /\ callers' = [callers EXCEPT ![c] = [@ EXCEPT !.pc = "raised"]]
    /\ UNCHANGED <<keyFile, clock, issued, gen>>
    /\ UNCHANGED notKeyVars

\* generate_museum_session_key, line 110: write_text opens the file for
\* writing, which creates or truncates it
KeyTruncate(c) ==
    /\ callers[c].pc = "write"
    /\ keyFile' = [exists |-> TRUE, text |-> 0, mtime |-> clock]
    /\ callers' = [callers EXCEPT ![c] = [@ EXCEPT !.pc = "write2", !.wrote = TRUE]]
    /\ UNCHANGED <<clock, lock, issued, gen>>
    /\ UNCHANGED notKeyVars

\* generate_museum_session_key, lines 110-114: write_text writes the key,
\* the session is closed, the lock released and the key returned
KeyWrite(c) ==
    /\ callers[c].pc = "write2"
    /\ keyFile' = [exists |-> TRUE, text |-> callers[c].new_key, mtime |-> clock]
    /\ gen' = gen + 1
    /\ lock' = 0
    /\ callers' = [callers EXCEPT ![c] = Return(@, Str(callers[c].new_key), clock)]
    /\ UNCHANGED <<clock, issued>>
    /\ UNCHANGED notKeyVars

KeyNext ==
    \/ Tick
    \/ \E c \in Callers :
         \/ KeyStat(c)
         \/ KeyRead(c)
         \/ KeyLock(c)
         \/ KeyExchangeOk(c)
         \/ KeyExchangeFail(c)
         \/ KeyTruncate(c)
         \/ KeyWrite(c)


\* the session key cache when nothing uses it
KeyIdle ==
    /\ keyFile = [exists |-> TRUE, text |-> 1, mtime |-> 0]
    /\ clock = 0
    /\ lock = 0
    /\ issued = 0
    /\ gen = 0
    /\ callers = [c \in Callers |-> InitCaller]

(***************************************************************************)
(* Download of a package: MuseumObject.download_package                    *)
(* (passari/museumplus/db.py), MuseumObjectPackage.download_*              *)
(* (passari/dpres/package.py), retrieve_cached_xml and                     *)
(* gather_or_raise_first (passari/utils.py)                                *)
(***************************************************************************)
Ids == 1..NumIds

\* a file that does not exist; a payload file holds `chunks` chunks of a
\* response body that is `of` chunks long
NoFile == [exists |-> FALSE, chunks |-> 0, of |-> 0]

NoAttachment == [dir |-> FALSE, xml |-> "absent", payload |-> NoFile, temp |-> NoFile]

NoActivity == [dir |-> FALSE, xml |-> "absent"]

NoTask == [pc |-> "none", kind |-> "none"]

NoExc == [kind |-> "none", id |-> 0]

\* the answers of GET /module/Multimedia/<id>/attachment: 404, or 200 with
\* an empty body or with a body of MaxChunks chunks
Answers ==
    {[status |-> 404, length |-> 0]}
        \cup {[status |-> 200, length |-> n] : n \in {0, MaxChunks}}

Min(S) == CHOOSE x \in S : \A y \in S : x <= y

\* asyncio's view of a task
Pending(t) == t.pc \in {"start", "await_xml", "write_xml", "await_payload", "reading"}

Failed(t) == t.pc = "failed"

Cancelled(t) == t.pc = "cancelled"

\* Task.exception(): raises InvalidStateError for a task that is not done and
\* CancelledError for a cancelled one, returns the exception of a failed
\* task and None for a task that returned
TaskException(i, t) ==
    IF Pending(t) THEN [raises |-> TRUE, exc |-> [kind |-> "InvalidStateError", id |-> 0]]
    ELSE IF Cancelled(t) THEN [raises |-> TRUE, exc |-> [kind |-> "CancelledError", id |-> 0]]
    ELSE IF Failed(t) THEN [raises |-> FALSE, exc |-> [kind |-> "task", id |-> i]]
    ELSE [raises |-> FALSE, exc |-> NoExc]

\* gather_or_raise_first, lines 98-100: cancel the tasks that are not done
CancelNotDone(ts) ==
    [i \in DOMAIN ts |-> IF Pending(ts[i]) THEN [ts[i] EXCEPT !.pc = "cancelled"] ELSE ts[i]]

\* a gather_or_raise_first that returns whatever the tasks did
GatherOutcomeIgnoresFailures(ts) ==
    [exc |-> NoExc, tasks |-> ts, logged |-> {}]

\* gather_or_raise_first from line 93 on, once asyncio.wait(FIRST_EXCEPTION)
\* has returned: the exception it raises (NoExc when it returns the results)
\* and the tasks as it leaves them.  The list comprehensions of lines 93 and
\* 106-108 call exception() on every task, in the order of the tasks.
GatherOutcome(ts) ==
    LET T == {i \in DOMAIN ts : ts[i].pc # "none"}
        raising == {i \in T : TaskException(i, ts[i]).raises}
        failed_tasks == {i \in T : Failed(ts[i])}
        cancelled == CancelNotDone(ts)
        raising2 == {i \in T : TaskException(i, cancelled[i]).raises}
    IN  IF raising # {}
        THEN [exc |-> TaskException(Min(raising), ts[Min(raising)]).exc, tasks |-> ts,
              logged |-> {}]
        ELSE IF failed_tasks = {}
        THEN [exc |-> NoExc, tasks |-> ts, logged |-> {}]
        ELSE IF raising2 # {}
        THEN [exc |-> TaskException(Min(raising2), cancelled[Min(raising2)]).exc,
              tasks |-> cancelled, logged |-> {}]
        ELSE [exc |-> [kind |-> "task", id |-> Min(failed_tasks)], tasks |-> cancelled,
              logged |-> failed_tasks]

\* clean_attachments: remove the directories whose name is not the id of one
\* of self.attachments
CleanAttachmentsKeepsAll(a, ids) == a

CleanAttachments(a, ids) ==
    [i \in Ids |-> IF a[i].dir /\ i \notin ids THEN NoAttachment ELSE a[i]]

\* clean_collection_activities
CleanCollectionActivities(a, ids) ==
    [i \in Ids |-> IF a[i].dir /\ i \notin ids THEN NoActivity ELSE a[i]]

NoWake == [failed |-> {}, pending |-> {}, cancelled |-> {}, unfinished |-> {}]

FetchInit ==
    /\ att = [i \in Ids |-> NoAttachment]
    /\ act = [i \in Ids |-> NoActivity]
    /\ lido = "absent"
    /\ refs = [att |-> {}, act |-> {}]
    /\ fpc = "idle"
    /\ tasks = [i \in Ids |-> NoTask]
    /\ requests = {}
    /\ raised = NoExc
    /\ wake = NoWake
    /\ before = [att |-> att, act |-> act]
    /\ rerun = FALSE
    /\ cycles = 0

FetchIdle == FetchInit

\* download_reports: retrieve_cached_xml of lido.xml, then Object.xml is
\* written and download_package returns
Reports(req) ==
    IF lido = "complete"
    THEN [fpc |-> "done", requests |-> req, raised |-> NoExc]
    ELSE IF lido = "partial"
    THEN [fpc |-> "failed", requests |-> req,
          raised |-> [kind |-> "XMLSyntaxError", id |-> 0]]
    ELSE [fpc |-> "await_lido", requests |-> req \cup {<<"lido", 0>>},
          raised |-> NoExc]

\* download_collection_activities up to its await: with no ids
\* gather_or_raise_first returns [] at once, clean_collection_activities and
\* download_reports follow
Activities(ids, req) ==
    IF ids = {}
    THEN [act |-> CleanCollectionActivities(act, {}),
          tasks |-> [i \in Ids |-> NoTask]] @@ Reports(req)
    ELSE [act |-> act,
          tasks |-> [i \in Ids |-> IF i \in ids
                                   THEN [pc |-> "start", kind |-> "act"]
                                   ELSE NoTask],
          fpc |-> "activities", requests |-> req, raised |-> NoExc]

\* download_package is called for a record that refers to the attachments a
\* and the collection activities b: download_attachments up to its await
StartCycle(a, b) ==
    /\ fpc \in {"idle", "done", "failed", "crashed"}
    /\ cycles < MaxCycles
    /\ cycles' = cycles + 1
    /\ refs' = [att |-> a, act |-> b]
    /\ before' = [att |-> att, act |-> act]
    /\ rerun' = (fpc = "done" /\ refs = [att |-> a, act |-> b])
    /\ wake' = NoWake
    /\ IF a = {}
       THEN LET n == Activities(b, {})
            IN  /\ att' = CleanAttachments(att, {})
                /\ act' = n.act
                /\ tasks' = n.tasks
                /\ fpc' = n.fpc
                /\ requests' = n.requests
                /\ raised' = n.raised
       ELSE /\ tasks' = [i \in Ids |-> IF i \in a
                                       THEN [pc |-> "start", kind |-> "att"]
                                       ELSE NoTask]
            /\ fpc' = "attachments"
            /\ requests' = {}
            /\ raised' = NoExc
            /\ UNCHANGED <<att, act>>
    /\ UNCHANGED lido
    /\ UNCHANGED notFetchVars

\* the event loop runs the tasks while download_package awaits them; the
\* exception of download_package ends the process (scripts/download_object.py)
\* and with it the tasks that gather_or_raise_first left behind
Running == fpc \in {"attachments", "activities"}

\* asyncio runs the first step of every task that ensure_future scheduled
\* (line 88) before it delivers the result of any request
AllStarted == \A i \in Ids : tasks[i].pc # "start"

\* download_attachment, lines 213-268 (the response of line 232 is awaited):
\* an attachment already in place is not downloaded again
AfterXmlAlways(i) ==
    /\ tasks' = [tasks EXCEPT ![i].pc = "await_payload"]
    /\ requests' = requests \cup {<<"attachment", i>>}

AfterXml(i) ==
    IF att[i].payload.exists
    THEN /\ tasks' = [tasks EXCEPT ![i].pc = "ok"]
         /\ UNCHANGED requests
    ELSE /\ tasks' = [tasks EXCEPT ![i].pc = "await_payload"]
         /\ requests' = requests \cup {<<"attachment", i>>}

\* download_attachment, lines 187-194, with retrieve_cached_xml up to its
\* request: the directory is made, Multimedia.xml is read if it is there
AttStart(i) ==
    /\ Running
    /\ tasks[i].pc = "start" /\ tasks[i].kind = "att"
    /\ att' = [att EXCEPT ![i].dir = TRUE]
    /\ CASE att[i].xml = "complete" -> AfterXml(i)
         [] att[i].xml = "partial" ->
              /\ tasks' = [tasks EXCEPT ![i].pc = "failed"]
              /\ UNCHANGED requests
         [] OTHER ->
              /\ tasks' = [tasks EXCEPT ![i].pc = "await_xml"]
              /\ requests' = requests \cup {<<"Multimedia", i>>}
    /\ UNCHANGED <<act, lido, refs, fpc, raised, wake, before, rerun, cycles>>
    /\ UNCHANGED notFetchVars

\* download_collection_activity, lines 383-391
ActStart(i) ==
    /\ Running
    /\ tasks[i].pc = "start" /\ tasks[i].kind = "act"
    /\ act' = [act EXCEPT ![i].dir = TRUE]
    /\ CASE act[i].xml = "complete" ->
              /\ tasks' = [tasks EXCEPT ![i].pc = "ok"]
              /\ UNCHANGED requests
         [] act[i].xml = "partial" ->
              /\ tasks' = [tasks EXCEPT ![i].pc = "failed"]
              /\ UNCHANGED requests
         [] OTHER ->
              /\ tasks' = [tasks EXCEPT ![i].pc = "await_xml"]
              /\ requests' = requests \cup {<<"CollectionActivity", i>>}
    /\ UNCHANGED <<att, lido, refs, fpc, raised, wake, before, rerun, cycles>>
    /\ UNCHANGED notFetchVars

\* retrieve_cached_xml, lines 64-70: the response was read and the file is
\* opened for writing
XmlResponse(i) ==
    /\ Running /\ AllStarted
    /\ tasks[i].pc = "await_xml"
    /\ tasks' = [tasks EXCEPT ![i].pc = "write_xml"]
    /\ IF tasks[i].kind = "att"
       THEN att' = [att EXCEPT ![i].xml = "partial"] /\ UNCHANGED act
       ELSE act' = [act EXCEPT ![i].xml = "partial"] /\ UNCHANGED att
    /\ UNCHANGED <<lido, refs, fpc, requests, raised, wake, before, rerun, cycles>>
    /\ UNCHANGED notFetchVars

\* retrieve_cached_xml, lines 71-73: the document is written and parsed
XmlWrite(i) ==
    /\ Running /\ AllStarted
    /\ tasks[i].pc = "write_xml"
    /\ IF tasks[i].kind = "att"
       THEN /\ att' = [att EXCEPT ![i].xml = "complete"]
            /\ AfterXml(i)
            /\ UNCHANGED act
       ELSE /\ act' = [act EXCEPT ![i].xml = "complete"]
            /\ tasks' = [tasks EXCEPT ![i].pc = "ok"]
            /\ UNCHANGED <<att, requests>>
    /\ UNCHANGED <<lido, refs, fpc, raised, wake, before, rerun, cycles>>
    /\ UNCHANGED notFetchVars

\* a request or a read of a response raises (connection error, time-out,
\* raise_for_status): the task ends with that exception
TaskFail(i) ==
    /\ Running /\ AllStarted
    /\ tasks[i].pc \in {"await_xml", "await_payload", "reading"}
    /\ tasks' = [tasks EXCEPT ![i].pc = "failed"]
    /\ UNCHANGED <<att, act, lido, refs, fpc, requests, raised, wake, before,
                   rerun, cycles>>
    /\ UNCHANGED notFetchVars

\* download_attachment, lines 232-246: 404 returns the attachment without a
\* payload, otherwise the temporary file is opened for writing
PayloadResponse(i, answer) ==
    /\ Running /\ AllStarted
    /\ tasks[i].pc = "await_payload"
    /\ IF answer.status = 404
       THEN /\ tasks' = [tasks EXCEPT ![i].pc = "ok"]
            /\ UNCHANGED att
       ELSE /\ tasks' = [tasks EXCEPT ![i].pc = "reading"]
            /\ att' = [att EXCEPT ![i].temp =
                          [exists |-> TRUE, chunks |-> 0, of |-> answer.length]]
    /\ UNCHANGED <<act, lido, refs, fpc, requests, raised, wake, before, rerun,
                   cycles>>
    /\ UNCHANGED notFetchVars

\* a download that renames the file after its first chunk
ReadChunkRenamesEarly(i) ==
    /\ Running /\ AllStarted
    /\ tasks[i].pc = "reading"
    /\ IF att[i].temp.chunks < att[i].temp.of
       THEN /\ att' = [att EXCEPT ![i].payload =
                          [att[i].temp EXCEPT !.chunks = @ + 1],
                                   ![i].temp = NoFile]
            /\ tasks' = [tasks EXCEPT ![i].pc = "ok"]
       ELSE /\ att' = [att EXCEPT ![i].temp = NoFile]
            /\ tasks' = [tasks EXCEPT ![i].pc = "ok"]
    /\ UNCHANGED <<act, lido, refs, fpc, requests, raised, wake, before, rerun,
                   cycles>>
    /\ UNCHANGED notFetchVars

\* download_attachment, lines 247-268: a chunk is read and written to the
\* temporary file; after the last one an empty file is removed and any other
\* is renamed to the name of the attachment
ReadChunk(i) ==
    /\ Running /\ AllStarted
    /\ tasks[i].pc = "reading"
    /\ IF att[i].temp.chunks < att[i].temp.of
       THEN /\ att' = [att EXCEPT ![i].temp.chunks = @ + 1]
            /\ UNCHANGED tasks
       ELSE /\ att' = [att EXCEPT
                  ![i].payload = IF att[i].temp.chunks = 0 THEN @ ELSE att[i].temp,
                  ![i].temp = NoFile]
            /\ tasks' = [tasks EXCEPT ![i].pc = "ok"]
    /\ UNCHANGED <<act, lido, refs, fpc, requests, raised, wake, before, rerun,
                   cycles>>
    /\ UNCHANGED notFetchVars

\* gather_or_raise_first, line 91: asyncio.wait(FIRST_EXCEPTION) returns once
\* a task has failed or all are done; lines 93-119 follow, then
\* download_attachments (lines 280-284) and download_collection_activities up
\* to its await, or download_collection_activities (lines 374-376) and
\* download_reports up to its await
GatherResume ==
    /\ fpc \in {"attachments", "activities"}
    /\ LET T == {i \in Ids : tasks[i].pc # "none"}
       IN  \/ \E i \in T : Failed(tasks[i])
           \/ \A i \in T : ~Pending(tasks[i])
    /\ wake' = [failed |-> {i \in Ids : Failed(tasks[i])},
                pending |-> {i \in Ids : Pending(tasks[i])},
                cancelled |-> {i \in Ids : Cancelled(GatherOutcome(tasks).tasks[i])},
                unfinished |-> {i \in Ids : Pending(GatherOutcome(tasks).tasks[i])}]
    /\ LET out == GatherOutcome(tasks)
       IN  IF out.exc # NoExc
           THEN /\ fpc' = "failed"
                /\ raised' = out.exc
                /\ tasks' = [i \in Ids |-> NoTask]
                /\ UNCHANGED <<att, act, requests>>
           ELSE IF fpc = "attachments"
           THEN LET n == Activities(refs.act, requests)
                IN  /\ att' = CleanAttachments(att, refs.att)
                    /\ act' = n.act
                    /\ tasks' = n.tasks
                    /\ fpc' = n.fpc
                    /\ requests' = n.requests
                    /\ raised' = n.raised
           ELSE LET n == Reports(requests)
                IN  /\ act' = CleanCollectionActivities(act, refs.act)
                    /\ tasks' = [i \in Ids |-> NoTask]
                    /\ fpc' = n.fpc
                    /\ requests' = n.requests
                    /\ raised' = n.raised
                    /\ UNCHANGED att
    /\ UNCHANGED <<lido, refs, before, rerun, cycles>>
    /\ UNCHANGED notFetchVars

\* retrieve_cached_xml of lido.xml, lines 64-70
LidoResponse ==
    /\ fpc = "await_lido"
    /\ fpc' = "write_lido"
    /\ lido' = "partial"
    /\ UNCHANGED <<att, act, refs, tasks, requests, raised, wake, before, rerun,
                   cycles>>
    /\ UNCHANGED notFetchVars

\* retrieve_cached_xml of lido.xml, lines 71-73, and download_package to
\* its end
LidoWrite ==
    /\ fpc = "write_lido"
    /\ fpc' = "done"
    /\ lido' = "complete"
    /\ UNCHANGED <<att, act, refs, tasks, requests, raised, wake, before, rerun,
                   cycles>>
    /\ UNCHANGED notFetchVars

\* the request for lido.xml raises
LidoFail ==
    /\ fpc = "await_lido"
    /\ fpc' = "failed"
    /\ raised' = [kind |-> "lido", id |-> 0]
    /\ UNCHANGED <<att, act, lido, refs, tasks, requests, wake, before, rerun,
                   cycles>>
    /\ UNCHANGED notFetchVars

\* the process is killed: the files stay as they are
Crash ==
    /\ fpc \in {"attachments", "activities", "await_lido", "write_lido"}
    /\ fpc' = "crashed"
    /\ tasks' = [i \in Ids |-> NoTask]
    /\ UNCHANGED <<att, act, lido, refs, requests, raised, wake, before, rerun,
                   cycles>>
    /\ UNCHANGED notFetchVars

FetchNext ==
    \/ \E a, b \in SUBSET Ids : StartCycle(a, b)
    \/ \E i \in Ids :
         \/ AttStart(i)
         \/ ActStart(i)
         \/ XmlResponse(i)
         \/ XmlWrite(i)
         \/ TaskFail(i)
         \/ \E answer \in Answers : PayloadResponse(i, answer)
         \/ ReadChunk(i)
    \/ GatherResume
    \/ LidoResponse
    \/ LidoWrite
    \/ LidoFail
    \/ Crash

(***************************************************************************)
(* SIP assembly: MuseumObjectPackage.generate_sip                          *)
(* (passari/dpres/package.py), the external commands                       *)
(* (passari/dpres/scripts.py) and the error detectors                      *)
(* (passari/dpres/errors.py)                                               *)
(***************************************************************************)
\* package.py:26-40
IMAGE_FORMATS == {"gif", "tif", "tiff", "jpg", "jpeg"}

DOCUMENT_FORMATS == {"pdf", "odf", "xml"}

MISC_FORMATS == {"attachment"}

SUPPORTED_FORMATS == IMAGE_FORMATS \cup DOCUMENT_FORMATS \cup MISC_FORMATS

ARCHIVE_FORMATS == {"zip"}

\* str.lower() on the suffixes the model uses
Lower(s) ==
    CASE s = "WAD" -> "wad"
      [] s = "JPG" -> "jpg"
      [] s = "TIF" -> "tif"
      [] OTHER -> s

\* suffixes of the attachment files MuseumPlus serves
PayloadSuffixes == {"jpg", "tif", "WAD", "exe"}

\* the files inside a zip attachment, in the order glob lists them
ArchiveContents == {<<>>, <<"jpg">>, <<"WAD">>, <<"zip">>, <<"JPG", "exe">>}

\* the file download_attachment left in sip/attachments/<id>/
Payloads ==
    [suffix : PayloadSuffixes, inner : {<<>>}]
        \cup [suffix : {"zip"}, inner : ArchiveContents]

\* the PREMIS events get_premis_events finds: the creation event of the
\* object and of lido.xml, with or without the migration event of the object
EventLists == {<<"creation", "creation">>, <<"creation", "transfer", "creation">>}

\* events.py:48, 253: get_premis_events raises TypeError for an object
\* without a creation date
EventsRaise == <<"TypeError">>

\* a path below sip/: sub is 0 for an entry of the directory <dir>/<id>/ and
\* k for the k-th entry of the directory that replaced an archive
Path(dir, id, name, suffix, sub, isdir) ==
    [dir |-> dir, id |-> id, name |-> name, suffix |-> suffix, sub |-> sub,
     isdir |-> isdir]

NoPath == Path("", 0, "", "", 0, FALSE)

\* sip/reports/*: download_reports writes lido.xml and Object.xml
ReportFiles ==
    <<Path("reports", 0, "lido", "xml", 0, FALSE),
      Path("reports", 0, "Object", "xml", 0, FALSE)>>

\* sip/collection_activities/<id>/*
CollectionActivityFiles(n) ==
    [i \in 1..n |-> Path("collection_activities", i, "CollectionActivity",
                         "xml", 0, FALSE)]

\* sip/attachments/<i>/**/*: the document, the attachment and, once the
\* archive was replaced by a directory, the entries of that directory
AttachmentEntries(p, f, i) ==
    <<Path("attachments", i, "Multimedia", "xml", 0, FALSE),
      Path("attachments", i, "payload", p[i].suffix, 0, f[i] = "dir")>>
    \o (IF f[i] = "dir"
        THEN [k \in 1..Len(p[i].inner) |->
                 Path("attachments", i, "payload", p[i].inner[k], k, FALSE)]
        ELSE <<>>)

RECURSIVE AttachmentGlob(_, _, _)
AttachmentGlob(p, f, i) ==
    IF i > Len(p) THEN <<>>
    ELSE AttachmentEntries(p, f, i) \o AttachmentGlob(p, f, i + 1)

RECURSIVE AttachmentDirGlob(_, _, _)
\* sip/attachments/**/*: the directory of each attachment and its entries
AttachmentDirGlob(p, f, i) ==
    IF i > Len(p) THEN <<>>
    ELSE <<Path("attachments", i, "", "", 0, TRUE)>>
         \o AttachmentEntries(p, f, i) \o AttachmentDirGlob(p, f, i + 1)

IsFile(path) == ~path.isdir

\* a populate_files that keeps the directories
PopulateFilesUnfiltered(p, f) ==
    ReportFiles \o AttachmentDirGlob(p, f, 1)

\* package.py:441-452
PopulateFiles(p, f) ==
    SelectSeq(ReportFiles \o AttachmentDirGlob(p, f, 1), IsFile)

IsImage(path) == Lower(path.suffix) \in IMAGE_FORMATS

IsArchive(path) == Lower(path.suffix) \in ARCHIVE_FORMATS

IsUnsupported(path) == Lower(path.suffix) \notin SUPPORTED_FORMATS

\* package.py:479-484
ImageFiles(files) == SelectSeq(files, IsImage)

\* package.py:486-491
ArchiveFiles(files) == SelectSeq(files, IsArchive)

\* an iterate_files_to_import that yields the reports first
IterateReportsFirst(p, f, n) ==
    ReportFiles \o AttachmentGlob(p, f, 1) \o CollectionActivityFiles(n)

\* package.py:493-529: no is_file filter, directories are yielded too
IterateFilesToImport(p, f, n) ==
    AttachmentGlob(p, f, 1) \o CollectionActivityFiles(n) \o ReportFiles

\* a path relative to the directory top of sip/ ("" for the directory of
\* the attachment or of the collection activity itself)
RelativeTo(top, path) ==
    [top |-> top, name |-> path.name, suffix |-> path.suffix, sub |-> path.sub]

\* package.py:505-509, 517-521, 525-529: the identifier yielded with a path,
\* f"Multimedia:{attachment_id}:{relative_path}" and so on; the path of a
\* report is relative to sip/
ImportIdentifier(path, object_id) ==
    CASE path.dir = "attachments" ->
             [kind |-> "Multimedia", id |-> path.id,
              relative_path |-> RelativeTo("", path)]
      [] path.dir = "collection_activities" ->
             [kind |-> "CollectionActivity", id |-> path.id,
              relative_path |-> RelativeTo("", path)]
      [] OTHER ->
             [kind |-> "Object", id |-> object_id,
              relative_path |-> RelativeTo("reports", path)]

NoError == [kind |-> "none", error |-> "", suffix |-> ""]

PreservationError(message, suffix) ==
    [kind |-> "PreservationError", error |-> message, suffix |-> suffix]

CalledProcessError == [kind |-> "CalledProcessError", error |-> "", suffix |-> ""]

UnicodeDecodeError == [kind |-> "UnicodeDecodeError", error |-> "", suffix |-> ""]

RuntimeError == [kind |-> "RuntimeError", error |-> "", suffix |-> ""]

TypeError == [kind |-> "TypeError", error |-> "", suffix |-> ""]

\* check_files without lower()
CheckFilesKeepsCase(files) ==
    LET bad == SelectSeq(files, IsUnsupported)
    IN  IF bad = <<>> THEN NoError
        ELSE PreservationError("Unsupported file format", Head(bad).suffix)

\* package.py:425-439: the error check_files raises, NoError when it returns
CheckFiles(files) ==
    LET bad == SelectSeq(files, IsUnsupported)
    IN  IF bad = <<>> THEN NoError
        ELSE PreservationError("Unsupported file format",
                               Lower(Head(bad).suffix))

\* ---- errors.py ----
\* the substrings the detectors look for in stderr
ValidatorReturnedError == "Validator returned error"

TiffHul == ">TIFF-hul</reportingModule>"

MultipleStreams ==
    "The file contains multiple streams which is supported only for video containers."

MimeNotSupported == "MIME type not supported by this scraper."

MpoConflict ==
    "Conflict with existing value 'image/jpeg' and new value 'image/mpo'"

\* test_errors.py:6-12 and 23-34: the last lines of the stderr of the two
\* JPEG version failures, which no detector looks for
JpegVersionNotDetected ==
    "MIME type image/jpeg with version JPEG image data is not supported."

JpegVersionNotSupported == "File format version is not supported."

\* stderr of a command: whether the bytes are valid UTF-8 and which of the
\* substrings they contain
NoStderr == [utf8 |-> TRUE, has |-> {}]

Stderrs ==
    [utf8 : {TRUE},
     has : {{}, {ValidatorReturnedError, TiffHul}, {MultipleStreams},
            {MimeNotSupported}, {MpoConflict}}]
        \cup {[utf8 |-> FALSE, has |-> {}]}

\* what a detector's check(exc) does: "pass" when it returns, else the
\* exception it raises; exc.stderr.decode("utf-8") raises on invalid bytes
Pass == [kind |-> "pass", error |-> "", suffix |-> ""]

\* cmd[-1].split(".")[-1].lower()
FileExt(exc) == Lower(exc.target.suffix)

\* errors.py:15-44
JHOVEInvalidTIFFError(exc) ==
    IF exc.cmd # "import-object" THEN Pass
    ELSE IF ~exc.stderr.utf8 THEN UnicodeDecodeError
    ELSE IF ValidatorReturnedError \notin exc.stderr.has THEN Pass
    ELSE IF TiffHul \in exc.stderr.has
         THEN PreservationError("TIFF file failed JHOVE validation", "")
    ELSE Pass

\* errors.py:47-76
MultiPageTIFFError(exc) ==
    IF exc.cmd # "import-object" THEN Pass
    ELSE IF FileExt(exc) \notin {"tif", "tiff"} THEN Pass
    ELSE IF ~exc.stderr.utf8 THEN UnicodeDecodeError
    ELSE IF MultipleStreams \in exc.stderr.has
         THEN PreservationError("Multi-page TIFF not allowed", "")
    ELSE Pass

\* errors.py:79-106
JPEGMIMETypeError(exc) ==
    IF exc.cmd # "import-object" THEN Pass
    ELSE IF FileExt(exc) \notin {"jpg", "jpeg"} THEN Pass
    ELSE IF ~exc.stderr.utf8 THEN UnicodeDecodeError
    ELSE IF MimeNotSupported \in exc.stderr.has
         THEN PreservationError("JPEG MIME type detection failed", "")
    ELSE Pass

\* errors.py:109-137
JPEGMPONotSupportedError(exc) ==
    IF exc.cmd # "import-object" THEN Pass
    ELSE IF FileExt(exc) \notin {"jpg", "jpeg"} THEN Pass
    ELSE IF ~exc.stderr.utf8 THEN UnicodeDecodeError
    ELSE IF MpoConflict \in exc.stderr.has
         THEN PreservationError("MPO JPEG files not supported", "")
    ELSE Pass

\* errors.py:140-143
ERROR_DETECTORS ==
    <<"JHOVEInvalidTIFFError", "MultiPageTIFFError", "JPEGMIMETypeError",
      "JPEGMPONotSupportedError">>

Check(error_cls, exc) ==
    CASE error_cls = "JHOVEInvalidTIFFError" -> JHOVEInvalidTIFFError(exc)
      [] error_cls = "MultiPageTIFFError" -> MultiPageTIFFError(exc)
      [] error_cls = "JPEGMIMETypeError" -> JPEGMIMETypeError(exc)
      [] error_cls = "JPEGMPONotSupportedError" -> JPEGMPONotSupportedError(exc)

\* errors.py:150-160: the first exception a detector raises, Pass when the
\* loop ends
RECURSIVE RaiseFrom(_, _)
RaiseFrom(k, exc) ==
    IF k > Len(ERROR_DETECTORS) THEN Pass
    ELSE IF Check(ERROR_DETECTORS[k], exc) # Pass
         THEN Check(ERROR_DETECTORS[k], exc)
    ELSE RaiseFrom(k + 1, exc)

RaiseForPreservationError(exc) == RaiseFrom(1, exc)

\* package.py:676-680: what the except clause of import_object raises
ImportObjectRaises(exc) ==
    IF RaiseForPreservationError(exc) # Pass
    THEN RaiseForPreservationError(exc)
    ELSE CalledProcessError

\* ---- the run ----
\* one invocation of run_command
Command(cmd, event, target) ==
    [cmd |-> cmd, event |-> event, target |-> target, exited |-> FALSE,
     rc |-> 0, stderr |-> NoStderr]

\* an external command is running
CommandRunning == cmds # <<>> /\ ~cmds[Len(cmds)].exited

CommandRunningIs(cmd) == CommandRunning /\ cmds[Len(cmds)].cmd = cmd

\* scripts.py:40-50: create_subprocess_exec
Invoke(cmd, event, target) == Append(cmds, Command(cmd, event, target))

\* scripts.py:50-68: communicate() returned
Returned(rc, stderr) ==
    [cmds EXCEPT ![Len(cmds)].exited = TRUE, ![Len(cmds)].rc = rc,
                 ![Len(cmds)].stderr = stderr]

\* ---- the workspace and the logs ----
\* one entry of a log file: scripts.py:52-61
LogEntry(logfile, command) ==
    [file |-> logfile, cmd |-> command.cmd, stderr |-> command.stderr]

\* package.py:69-90: the directories the constructor makes
NewDisk ==
    [workspace |-> [exists |-> TRUE, files |-> {}], logs |-> <<>>,
     sip |-> {}]

\* the package directory a run finds: new, left by a run that failed after
\* import-object, or left by such a run and without its workspace
PriorDisks ==
    {NewDisk,
     [workspace |-> [exists |-> TRUE, files |-> {"import-object"}],
      logs |-> <<LogEntry("import-object.log",
                          [cmd |-> "import-object", stderr |-> NoStderr])>>,
      sip |-> {}],
     [workspace |-> [exists |-> FALSE, files |-> {}],
      logs |-> <<LogEntry("import-object.log",
                          [cmd |-> "import-object", stderr |-> NoStderr]),
                 LogEntry("create-mix.log",
                          [cmd |-> "create-mix", stderr |-> NoStderr])>>,
      sip |-> {}]}

\* a clear_workspace that keeps what the workspace holds
ClearWorkspaceKeeps(d) == [d EXCEPT !.workspace.exists = TRUE]

\* package.py:616-625: rmtree, FileNotFoundError passed over, mkdir
ClearWorkspace(d) ==
    [d EXCEPT !.workspace = [exists |-> TRUE, files |-> {}]]

\* the file a command leaves in the workspace, named after the command but
\* for mets.xml and signature.sig; unzip and tar write none
Output(cmd) ==
    CASE cmd = "compile-mets" -> {"mets.xml"}
      [] cmd = "sign-mets" -> {"signature.sig"}
      [] cmd \in {"unzip", "tar"} -> {}
      [] OTHER -> {cmd}

\* a run_command that opens the log with "wb"
RunCommandTruncates(d, logfile, command) ==
    [d EXCEPT !.logs = Append(SelectSeq(@, LAMBDA e : e.file # logfile),
                              LogEntry(logfile, command)),
              !.workspace.files =
                  IF command.rc = 0 THEN @ \cup Output(command.cmd) ELSE @]

\* scripts.py:50-61: the command ran, its entry is appended to the log
RunCommandWrites(d, logfile, command) ==
    [d EXCEPT !.logs = Append(@, LogEntry(logfile, command)),
              !.workspace.files =
                  IF command.rc = 0 THEN @ \cup Output(command.cmd) ELSE @]

\* package.py:765-772: os.rename of mets.xml and signature.sig
MoveToSip(d) ==
    [d EXCEPT !.workspace.files = @ \ {"mets.xml", "signature.sig"},
              !.sip = @ \cup {"mets.xml", "signature.sig"}]

ExitCodes == {0, 1}

\* a package directory before generate_sip
SipInit ==
    /\ payload \in UNION {[1..n -> Payloads] : n \in 0..MaxFiles}
    /\ events \in EventLists \cup {EventsRaise}
    /\ activities \in 0..MaxActivities
    /\ fs = [i \in 1..Len(payload) |-> "file"]
    /\ all_files = <<>>
    /\ todo = <<>>
    /\ stage = "Idle"
    /\ cmds = <<>>
    /\ log = <<>>
    /\ error = NoError
    /\ disk \in PriorDisks

\* the package when no SIP is assembled
SipIdle ==
    /\ payload = <<>>
    /\ events = <<"creation", "creation">>
    /\ activities = 0
    /\ fs = <<>>
    /\ all_files = <<>>
    /\ todo = <<>>
    /\ stage = "Idle"
    /\ cmds = <<>>
    /\ log = <<>>
    /\ error = NoError
    /\ disk = NewDisk

\* package.py:780-794: clear_workspace(), populate_files(), archive_files
GenerateSip ==
    /\ stage = "Idle"
    /\ stage' = "Clean"
    /\ disk' = ClearWorkspace(disk)
    /\ all_files' = PopulateFiles(payload, fs)
    /\ todo' = ArchiveFiles(all_files')
    /\ UNCHANGED <<payload, events, activities, fs, cmds, log, error>>
    /\ UNCHANGED notSipVars

\* package.py:627-640, scripts.py:97-110: mkdir of <archive>.extract, unzip
ExtractArchive ==
    /\ stage = "Clean" /\ todo # <<>> /\ ~CommandRunning
    /\ fs' = [fs EXCEPT ![Head(todo).id] = "extracting"]
    /\ IF Lower(Head(todo).suffix) = "zip"
       THEN /\ cmds' = Invoke("unzip", "", Head(todo))
            /\ UNCHANGED <<stage, error>>
       ELSE /\ stage' = "Failed"
            /\ error' = RuntimeError
            /\ UNCHANGED cmds
    /\ UNCHANGED <<payload, events, activities, all_files, todo, log>>
    /\ UNCHANGED disk
    /\ UNCHANGED notSipVars

\* an extraction that leaves the decompression event to a later stage
UnzipReturnDefersEvent(rc) ==
    /\ CommandRunningIs("unzip")
    /\ log' = Append(log, "extract-archive.log")
    /\ disk' = RunCommandWrites(disk, "extract-archive.log",
                                 Returned(rc, NoStderr)[Len(cmds)])
    /\ cmds' = Returned(rc, NoStderr)
    /\ IF rc = 0
       THEN /\ fs' = [fs EXCEPT ![Head(todo).id] = "dir"]
            /\ todo' = Tail(todo)
            /\ UNCHANGED <<stage, error>>
       ELSE /\ stage' = "Failed"
            /\ error' = CalledProcessError
            /\ UNCHANGED <<fs, todo>>
    /\ UNCHANGED <<payload, events, activities, all_files>>
    /\ UNCHANGED notSipVars

\* package.py:636-661: unzip returned; the archive is removed, the directory
\* takes its name, premis-event is started
UnzipReturn(rc) ==
    /\ CommandRunningIs("unzip")
    /\ log' = Append(log, "extract-archive.log")
    /\ disk' = RunCommandWrites(disk, "extract-archive.log",
                                 Returned(rc, NoStderr)[Len(cmds)])
    /\ IF rc = 0
       THEN /\ fs' = [fs EXCEPT ![Head(todo).id] = "dir"]
            /\ cmds' = Append(Returned(rc, NoStderr),
                              Command("premis-event", "decompression",
                                      Head(todo)))
            /\ UNCHANGED <<stage, error>>
       ELSE /\ cmds' = Returned(rc, NoStderr)
            /\ stage' = "Failed"
            /\ error' = CalledProcessError
            /\ UNCHANGED fs
    /\ UNCHANGED <<payload, events, activities, all_files, todo>>
    /\ UNCHANGED notSipVars

\* package.py:649-661: premis-event of the extraction returned
DecompressionEventReturn(rc) ==
    /\ CommandRunningIs("premis-event") /\ stage = "Clean"
    /\ log' = Append(log, "premis-event.log")
    /\ disk' = RunCommandWrites(disk, "premis-event.log",
                                 Returned(rc, NoStderr)[Len(cmds)])
    /\ cmds' = Returned(rc, NoStderr)
    /\ IF rc = 0
       THEN /\ todo' = Tail(todo)
            /\ UNCHANGED <<stage, error>>
       ELSE /\ stage' = "Failed"
            /\ error' = CalledProcessError
            /\ UNCHANGED todo
    /\ UNCHANGED <<payload, events, activities, fs, all_files>>
    /\ UNCHANGED notSipVars

\* package.py:796-803: the loop over archive_files is over; populate_files()
\* again if there were archives
ArchivesExtracted ==
    /\ stage = "Clean" /\ todo = <<>> /\ ~CommandRunning
    /\ stage' = "ArchivesExtracted"
    /\ all_files' = IF ArchiveFiles(all_files) # <<>>
                    THEN PopulateFiles(payload, fs)
                    ELSE all_files
    /\ UNCHANGED <<payload, events, activities, fs, todo, cmds, log, error>>
    /\ UNCHANGED disk
    /\ UNCHANGED notSipVars

\* package.py:805-806, 809: check_files(), then iterate_files_to_import()
Validate ==
    /\ stage = "ArchivesExtracted"
    /\ IF CheckFiles(all_files) # NoError
       THEN /\ stage' = "Failed"
            /\ error' = CheckFiles(all_files)
            /\ UNCHANGED todo
       ELSE /\ stage' = "Validated"
            /\ todo' = IterateFilesToImport(payload, fs, activities)
            /\ UNCHANGED error
    /\ UNCHANGED <<payload, events, activities, fs, all_files, cmds, log>>
    /\ UNCHANGED disk
    /\ UNCHANGED notSipVars

\* package.py:664-675, scripts.py:113-129
ImportObject ==
    /\ stage = "Validated" /\ todo # <<>> /\ ~CommandRunning
    /\ cmds' = Invoke("import-object", "", Head(todo))
    /\ UNCHANGED <<payload, events, activities, fs, all_files, todo, stage,
                   log, error>>
    /\ UNCHANGED disk
    /\ UNCHANGED notSipVars

\* package.py:676-680: import-object returned
ImportObjectReturn(rc, stderr) ==
    /\ CommandRunningIs("import-object")
    /\ rc = 0 => stderr = NoStderr
    /\ log' = Append(log, "import-object.log")
    /\ disk' = RunCommandWrites(disk, "import-object.log",
                                 Returned(rc, stderr)[Len(cmds)])
    /\ cmds' = Returned(rc, stderr)
    /\ IF rc = 0
       THEN /\ todo' = Tail(todo)
            /\ UNCHANGED <<stage, error>>
       ELSE /\ stage' = "Failed"
            /\ error' = ImportObjectRaises(Returned(rc, stderr)[Len(cmds)])
            /\ UNCHANGED todo
    /\ UNCHANGED <<payload, events, activities, fs, all_files>>
    /\ UNCHANGED notSipVars

\* the end of a loop of generate_sip: the stage is complete and the list of
\* the next loop is taken
LoopDone(from, to, next) ==
    /\ stage = from /\ todo = <<>> /\ ~CommandRunning
    /\ stage' = to
    /\ todo' = next
    /\ UNCHANGED <<payload, events, activities, fs, all_files, cmds, log,
                   error>>
    /\ UNCHANGED disk
    /\ UNCHANGED notSipVars

\* a command of a loop is started for the head of the list
LoopInvoke(at, cmd, event, target) ==
    /\ stage = at /\ todo # <<>> /\ ~CommandRunning
    /\ cmds' = Invoke(cmd, event, target)
    /\ UNCHANGED <<payload, events, activities, fs, all_files, todo, stage,
                   log, error>>
    /\ UNCHANGED disk
    /\ UNCHANGED notSipVars

\* scripts.py:52-68: the log entry, then CalledProcessError on a nonzero exit
LoopReturn(at, cmd, logfile, rc) ==
    /\ CommandRunningIs(cmd) /\ stage = at
    /\ log' = Append(log, logfile)
    /\ disk' = RunCommandWrites(disk, logfile,
                                 Returned(rc, NoStderr)[Len(cmds)])
    /\ cmds' = Returned(rc, NoStderr)
    /\ IF rc = 0
       THEN /\ todo' = Tail(todo)
            /\ UNCHANGED <<stage, error>>
       ELSE /\ stage' = "Failed"
            /\ error' = CalledProcessError
            /\ UNCHANGED todo
    /\ UNCHANGED <<payload, events, activities, fs, all_files>>
    /\ UNCHANGED notSipVars

\* a stage of one command is started
StageInvoke(at, cmd, target) ==
    /\ stage = at /\ ~CommandRunning
    /\ cmds' = Invoke(cmd, "", target)
    /\ UNCHANGED <<payload, events, activities, fs, all_files, todo, stage,
                   log, error>>
    /\ UNCHANGED disk
    /\ UNCHANGED notSipVars

\* a failed command after which the run goes on
StageReturnGoesOn(at, cmd, logfile, to, rc) ==
    /\ CommandRunningIs(cmd) /\ stage = at
    /\ log' = Append(log, logfile)
    /\ disk' = RunCommandWrites(disk, logfile,
                                 Returned(rc, NoStderr)[Len(cmds)])
    /\ cmds' = Returned(rc, NoStderr)
    /\ stage' = to
    /\ UNCHANGED <<payload, events, activities, fs, all_files, todo, error>>
    /\ UNCHANGED notSipVars

\* scripts.py:52-68: the command of the stage returned
StageReturn(at, cmd, logfile, to, rc) ==
    /\ CommandRunningIs(cmd) /\ stage = at
    /\ log' = Append(log, logfile)
    /\ disk' = RunCommandWrites(disk, logfile,
                                 Returned(rc, NoStderr)[Len(cmds)])
    /\ cmds' = Returned(rc, NoStderr)
    /\ IF rc = 0
       THEN /\ stage' = to
            /\ UNCHANGED error
       ELSE /\ stage' = "Failed"
            /\ error' = CalledProcessError
    /\ UNCHANGED <<payload, events, activities, fs, all_files, todo>>
    /\ UNCHANGED notSipVars

\* package.py:808-817: every file was imported; image_files
Imported == LoopDone("Validated", "Imported", ImageFiles(all_files))

\* package.py:682-691, 820-821
CreateMix == LoopInvoke("Imported", "create-mix", "", Head(todo))

CreateMixReturn(rc) == LoopReturn("Imported", "create-mix", "create-mix.log", rc)

\* package.py:820-823, 697: get_premis_events()
DerivedMetadataGenerated ==
    IF events = EventsRaise
    THEN /\ stage = "Imported" /\ todo = <<>> /\ ~CommandRunning
         /\ stage' = "Failed"
         /\ error' = TypeError
         /\ UNCHANGED <<payload, events, activities, fs, all_files, todo,
                        cmds, log>>
         /\ UNCHANGED disk
         /\ UNCHANGED notSipVars
    ELSE LoopDone("Imported", "DerivedMetadataGenerated", events)

\* package.py:693-710
AddPremisEvent ==
    LoopInvoke("DerivedMetadataGenerated", "premis-event", Head(todo), NoPath)

AddPremisEventReturn(rc) ==
    LoopReturn("DerivedMetadataGenerated", "premis-event", "premis-event.log",
               rc)

ProvenanceAdded == LoopDone("DerivedMetadataGenerated", "ProvenanceAdded", <<>>)

\* package.py:712-720
ImportDescription ==
    StageInvoke("ProvenanceAdded", "import-description", ReportFiles[1])

ImportDescriptionReturn(rc) ==
    StageReturn("ProvenanceAdded", "import-description",
                "import-description.log", "DescriptionImported", rc)

\* package.py:722-735
CompileStructmap == StageInvoke("DescriptionImported", "compile-structmap", NoPath)

CompileStructmapReturn(rc) ==
    StageReturn("DescriptionImported", "compile-structmap",
                "compile-structmap.log", "StructmapCompiled", rc)

\* package.py:736-747
CompileMets == StageInvoke("StructmapCompiled", "compile-mets", NoPath)

CompileMetsReturn(rc) ==
    StageReturn("StructmapCompiled", "compile-mets", "compile-mets.log",
                "MetsCompiled", rc)

\* package.py:749-757
SignMets == StageInvoke("MetsCompiled", "sign-mets", NoPath)

SignMetsReturn(rc) ==
    StageReturn("MetsCompiled", "sign-mets", "sign-mets.log", "Signed", rc)

\* package.py:759-778
Compress ==
    /\ stage = "Signed" /\ ~CommandRunning
    /\ disk' = MoveToSip(disk)
    /\ cmds' = Invoke("tar", "", NoPath)
    /\ UNCHANGED <<payload, events, activities, fs, all_files, todo, stage,
                   log, error>>
    /\ UNCHANGED notSipVars

CompressReturn(rc) ==
    StageReturn("Signed", "tar", "compress.log", "Compressed", rc)

\* package.py:834: generate_sip returns
GenerateSipDone ==
    /\ stage = "Compressed"
    /\ stage' = "Done"
    /\ UNCHANGED <<payload, events, activities, fs, all_files, todo, cmds, log,
                   error>>
    /\ UNCHANGED disk
    /\ UNCHANGED notSipVars

SipNext ==
    \/ GenerateSip
    \/ ExtractArchive
    \/ \E rc \in ExitCodes : UnzipReturn(rc)
    \/ \E rc \in ExitCodes : DecompressionEventReturn(rc)
    \/ ArchivesExtracted
    \/ Validate
    \/ ImportObject
    \/ \E rc \in ExitCodes, stderr \in Stderrs : ImportObjectReturn(rc, stderr)
    \/ Imported
    \/ CreateMix
    \/ \E rc \in ExitCodes : CreateMixReturn(rc)
    \/ DerivedMetadataGenerated
    \/ AddPremisEvent
    \/ \E rc \in ExitCodes : AddPremisEventReturn(rc)
    \/ ProvenanceAdded
    \/ ImportDescription
    \/ \E rc \in ExitCodes : ImportDescriptionReturn(rc)
    \/ CompileStructmap
    \/ \E rc \in ExitCodes : CompileStructmapReturn(rc)
    \/ CompileMets
    \/ \E rc \in ExitCodes : CompileMetsReturn(rc)
    \/ SignMets
    \/ \E rc \in ExitCodes : SignMetsReturn(rc)
    \/ Compress
    \/ \E rc \in ExitCodes : CompressReturn(rc)
    \/ GenerateSipDone

(***************************************************************************)
(* The error detectors on their own: raise_for_preservation_error          *)
(* (passari/dpres/errors.py) applied to a failed command                   *)
(***************************************************************************)
\* the substrings a stderr can contain
Markers ==
    {ValidatorReturnedError, TiffHul, MultipleStreams, MimeNotSupported,
     MpoConflict, JpegVersionNotDetected, JpegVersionNotSupported}

\* cmd[0] of the failed commands
Subcommands == {"import-object", "create-mix", "premis-event"}

\* the suffix of cmd[-1]
TargetSuffixes == {"tif", "tiff", "TIF", "jpg", "jpeg", "JPG", "pdf"}

\* the exceptions run_command can raise
Failures ==
    {[cmd |-> c, event |-> "",
      target |-> Path("attachments", 1, "payload", x, 0, FALSE),
      exited |-> TRUE, rc |-> 1, stderr |-> se] :
        c \in Subcommands, x \in TargetSuffixes,
        se \in [utf8 : BOOLEAN, has : SUBSET Markers]}

NotClassified == [kind |-> "not called", error |-> "", suffix |-> ""]

ClassifyInit ==
    /\ failure \in Failures
    /\ classified = NotClassified

\* no failure to classify
ClassifyIdle ==
    /\ failure = Command("", "", NoPath)
    /\ classified = NotClassified

\* errors.py:150-160
Classify ==
    /\ classified = NotClassified
    /\ classified' = RaiseForPreservationError(failure)
    /\ UNCHANGED failure
    /\ UNCHANGED notClassifyVars

ClassifyNext == Classify

(***************************************************************************)
(* The arguments of a SIP creation: cli, main and create_sip               *)
(* (passari/scripts/create_sip.py), generate_sip, compile_sip, objid and   *)
(* contentid (passari/dpres/package.py), compile_mets                      *)
(* (passari/dpres/scripts.py)                                              *)
(***************************************************************************)
ObjectIds == 1..NumObjects

\* the --sip-id values; "" is the value of a call without one
SipIds == {"", "a", "b"}

\* datetime.datetime values: the wall clock time and the tzinfo
DateTimes == [local : 1..MaxDate, tz : {"naive", "UTC", "+02:00"}]

\* None where a datetime is expected
NoDate == [local |-> 0, tz |-> "None"]

\* datetime.datetime.now(datetime.timezone.utc)
Now == [local |-> MaxDate + 1, tz |-> "UTC"]

\* ISO 8601 strings: the wall clock time and the zone designator
IsoStrings == [local : 1..MaxDate, zone : {"", "Z", "+00:00", "+02:00"}]

\* an option that is not on the command line
NoOption == [local |-> 0, zone |-> "absent"]

\* dateutil.parser.isoparse
Isoparse(text) ==
    [local |-> text.local,
     tz |-> CASE text.zone = "" -> "naive"
              [] text.zone \in {"Z", "+00:00"} -> "UTC"
              [] OTHER -> text.zone]

\* datetime.isoformat()
Isoformat(date) ==
    [local |-> date.local,
     zone |-> CASE date.tz = "naive" -> ""
                [] date.tz = "UTC" -> "+00:00"
                [] OTHER -> date.tz]

\* create_sip.py:69-88: DateTimeType.convert of the option, or of its default
\* datetime.now(timezone.utc).isoformat()
DateOption(text) ==
    IF text = NoOption THEN Isoparse(Isoformat(Now)) ELSE Isoparse(text)

\* package.py:578-586
ObjidWithSipId(object_id, sip_id) == <<"Passari_Object_", object_id, sip_id>>

Objid(object_id, sip_id) == <<"Passari_Object_", object_id>>

\* package.py:588-594
Contentid(object_id, sip_id) == <<"Object_", object_id>>

\* scripts.py:197-199
RecordStatusSubmission(update) == "submission"

RecordStatus(update) == IF update THEN "update" ELSE "submission"

NoFrame == [update |-> FALSE, create_date |-> NoDate, modify_date |-> NoDate]

NoMets ==
    [record_status |-> "", create_date |-> NoOption, last_moddate |-> NoOption,
     objid |-> <<>>, contentid |-> <<>>]

\* the calls: the command line, create_sip() and generate_sip()
Calls ==
    [entry : {"cli"}, object_id : ObjectIds, sip_id : SipIds,
     modified : 1..MaxDate, update : BOOLEAN,
     create_date : IsoStrings \cup {NoOption},
     modify_date : IsoStrings \cup {NoOption}]
    \cup
    [entry : {"create_sip", "generate_sip"}, object_id : ObjectIds,
     sip_id : SipIds, modified : 1..MaxDate, update : BOOLEAN,
     create_date : DateTimes \cup {NoDate},
     modify_date : DateTimes \cup {NoDate}]

CallInit ==
    /\ call \in Calls
    /\ cpc = call.entry
    /\ frame = IF call.entry = "cli" THEN NoFrame
               ELSE [update |-> call.update, create_date |-> call.create_date,
                     modify_date |-> call.modify_date]
    /\ mets = NoMets

\* no SIP creation was called
CallIdle ==
    /\ call = [entry |-> "none", object_id |-> 1, sip_id |-> "",
               modified |-> 1, update |-> FALSE, create_date |-> NoDate,
               modify_date |-> NoDate]
    /\ cpc = "done"
    /\ frame = NoFrame
    /\ mets = NoMets

\* create_sip.py:49-122: click converts the options, cli calls main, main
\* calls create_sip
Cli ==
    /\ cpc = "cli"
    /\ frame' = [update |-> call.update,
                 create_date |-> DateOption(call.create_date),
                 modify_date |-> DateOption(call.modify_date)]
    /\ cpc' = "create_sip"
    /\ UNCHANGED <<call, mets>>
    /\ UNCHANGED notCallVars

\* create_sip.py:14-44
CreateSip ==
    /\ cpc = "create_sip"
    /\ frame' = [frame EXCEPT !.create_date =
                     IF frame.create_date = NoDate THEN Now
                     ELSE frame.create_date]
    /\ cpc' = "generate_sip"
    /\ UNCHANGED <<call, mets>>
    /\ UNCHANGED notCallVars

\* package.py:780-831: generate_sip up to the call of compile_sip
GenerateSipCall ==
    /\ cpc = "generate_sip"
    /\ frame' = [frame EXCEPT !.create_date =
                     IF frame.create_date = NoDate THEN Now
                     ELSE frame.create_date]
    /\ cpc' = "compile_mets"
    /\ UNCHANGED <<call, mets>>
    /\ UNCHANGED notCallVars

\* package.py:736-747, scripts.py:190-218: the arguments of compile-mets
CompileMetsCall ==
    /\ cpc = "compile_mets"
    /\ mets' = [record_status |-> RecordStatus(frame.update),
                create_date |-> Isoformat(frame.create_date),
                last_moddate |-> IF frame.modify_date # NoDate
                                 THEN Isoformat(frame.modify_date)
                                 ELSE NoOption,
                objid |-> Objid(call.object_id, call.sip_id),
                contentid |-> Contentid(call.object_id, call.sip_id)]
    /\ cpc' = "done"
    /\ UNCHANGED <<call, frame>>
    /\ UNCHANGED notCallVars

CallNext ==
    \/ Cli
    \/ CreateSip
    \/ GenerateSipCall
    \/ CompileMetsCall

(***************************************************************************)
(* The PREMIS events of a package: get_premis_events and the event         *)
(* creators (passari/dpres/events.py), created_date and created_user       *)
(* (passari/museumplus/db.py)                                              *)
(***************************************************************************)
\* db.py:18-30, 44-57: the __created field, None when the document has none
NoCreated == [year |-> 0, month |-> 0]

\* creation dates inside and outside the month of the Musketti migration
CreatedDates ==
    {[year |-> 2018, month |-> 11], [year |-> 2018, month |-> 12],
     [year |-> 2017, month |-> 11]}

\* db.py:33-41: the __createdUser field; events.py:101
CreatedUsers == {"ZET_DÜ", "zet_dü"}

\* what the event creators read of an Object, Multimedia or
\* CollectionActivity document
Documents ==
    [created_date : CreatedDates \cup {NoCreated}, created_user : CreatedUsers]

\* the CollectionActivity documents: their creator is never read
ActivityDocuments ==
    [created_date : CreatedDates \cup {NoCreated}, created_user : {"zet_dü"}]

SeqsUpTo(S, n) == UNION {[1..k -> S] : k \in 0..n}

MuseumPackages ==
    [museum_object : Documents,
     attachments : SeqsUpTo(Documents, MaxFiles),
     collection_activities : SeqsUpTo(ActivityDocuments, MaxActivities)]

\* the date of lido.xml: the file's mtime, never a document's date
LidoMtime == [year |-> 2020, month |-> 1]

\* events.py:4-13
PremisEvent(event_type, event_datetime, event_detail, event_target) ==
    [event_type |-> event_type, event_datetime |-> event_datetime,
     event_detail |-> event_detail, event_target |-> event_target]

\* the target of an event of the object itself (event_target=None)
NoTarget == <<>>

\* what get_events returns: None, or a list
ReturnsNone == [none |-> TRUE, list |-> <<>>]

Returns(list) == [none |-> FALSE, list |-> list]

\* events.py:28-48
ObjectCreationEvent(p) ==
    IF p.museum_object.created_date # NoCreated
    THEN Returns(<<PremisEvent("creation", p.museum_object.created_date,
                               "Object database entry creation", NoTarget)>>)
    ELSE ReturnsNone

\* events.py:94-101, 139-149
IsMigration(doc) ==
    /\ doc.created_date.month = 11
    /\ doc.created_date.year = 2018
    /\ doc.created_user = "ZET_DÜ"

RECURSIVE PerDocument(_, _, _, _, _, _)
\* the loop of a creator over the documents docs, from index i on
PerDocument(docs, i, dir, event_type, detail, migration) ==
    IF i > Len(docs) THEN <<>>
    ELSE LET doc == docs[i]
             applies == /\ doc.created_date # NoCreated
                        /\ migration => IsMigration(doc)
         IN  (IF applies
              THEN <<PremisEvent(event_type, doc.created_date, detail,
                                 <<dir, i>>)>>
              ELSE <<>>)
             \o PerDocument(docs, i + 1, dir, event_type, detail, migration)

\* events.py:51-83
MultimediaCreationEvent(p) ==
    Returns(PerDocument(p.attachments, 1, "attachments", "creation",
                        "Multimedia attachment creation", FALSE))

\* events.py:86-121
ObjectMuskettiMigrationEvent(p) ==
    IF p.museum_object.created_date = NoCreated THEN Returns(<<>>)
    ELSE IF IsMigration(p.museum_object)
    THEN Returns(<<PremisEvent("transfer", p.museum_object.created_date,
                               "Object Musketti migration", NoTarget)>>)
    ELSE Returns(<<>>)

\* events.py:124-169
MultimediaMuskettiMigrationEvent(p) ==
    Returns(PerDocument(p.attachments, 1, "attachments", "transfer",
                        "Multimedia attachment Musketti migration", TRUE))

\* events.py:172-204
CollectionActivityCreationEvent(p) ==
    Returns(PerDocument(p.collection_activities, 1, "collection_activities",
                        "creation", "CollectionActivity creation", FALSE))

\* events.py:207-232
LIDOCreationEvent(p) ==
    Returns(<<PremisEvent("creation", LidoMtime, "LIDO document creation",
                          <<"reports", 0>>)>>)

\* events.py:235-239
EVENTS ==
    <<"ObjectCreationEvent", "MultimediaCreationEvent",
      "ObjectMuskettiMigrationEvent", "MultimediaMuskettiMigrationEvent",
      "CollectionActivityCreationEvent", "LIDOCreationEvent">>

\* events.py:252-253: event_cls(museum_package).get_events()
GetEvents(event_cls, p) ==
    CASE event_cls = "ObjectCreationEvent" -> ObjectCreationEvent(p)
      [] event_cls = "MultimediaCreationEvent" -> MultimediaCreationEvent(p)
      [] event_cls = "ObjectMuskettiMigrationEvent" ->
            ObjectMuskettiMigrationEvent(p)
      [] event_cls = "MultimediaMuskettiMigrationEvent" ->
            MultimediaMuskettiMigrationEvent(p)
      [] event_cls = "CollectionActivityCreationEvent" ->
            CollectionActivityCreationEvent(p)
      [] OTHER -> LIDOCreationEvent(p)

\* get_premis_events returned the list, or raised
EventsReturned(list) == [raised |-> "", events |-> list]

Raised(exception) == [raised |-> exception, events |-> <<>>]

RECURSIVE EventsLoop(_, _, _)
\* events.py:250-255: "events += None" raises TypeError
EventsLoop(p, i, list) ==
    IF i > Len(EVENTS) THEN EventsReturned(list)
    ELSE LET got == GetEvents(EVENTS[i], p)
         IN  IF got.none THEN Raised("TypeError")
             ELSE EventsLoop(p, i + 1, list \o got.list)

\* events.py:246-255
GetPremisEvents(p) == EventsLoop(p, 1, <<>>)

NotDerived == [raised |-> "not called", events |-> <<>>]

PremisInit ==
    /\ museum_package \in MuseumPackages
    /\ premis_events = NotDerived
    /\ previous_events = NotDerived

\* no package whose events are derived
PremisIdle ==
    /\ museum_package = [museum_object |-> [created_date |-> NoCreated,
                                            created_user |-> "zet_dü"],
                         attachments |-> <<>>,
                         collection_activities |-> <<>>]
    /\ premis_events = NotDerived
    /\ previous_events = NotDerived

\* package.py:697: events = get_premis_events(museum_package=self)
\* a get_premis_events that takes the attachments off the package
DeriveConsumes ==
    /\ previous_events = NotDerived
    /\ previous_events' = premis_events
    /\ premis_events' = GetPremisEvents(museum_package)
    /\ museum_package' = [museum_package EXCEPT !.attachments = <<>>]
    /\ UNCHANGED notPremisVars

\* package.py:697: events = get_premis_events(museum_package=self), called
\* once or twice on the package
Derive ==
    /\ previous_events = NotDerived
    /\ previous_events' = premis_events
    /\ premis_events' = GetPremisEvents(museum_package)
    /\ UNCHANGED museum_package
    /\ UNCHANGED notPremisVars

PremisNext == Derive

(***************************************************************************)
(* Two packages in one package directory: create_sip                       *)
(* (passari/scripts/create_sip.py) and the paths of MuseumObjectPackage    *)
(* (passari/dpres/package.py)                                              *)
(***************************************************************************)
\* create_sip.py:38-40: path = package_dir / str(object_id)
PackagePath(pkg) == pkg.object_id

\* package.py:551-553: path / "workspace"
WorkspaceDir(pkg) == <<PackagePath(pkg), "workspace", "">>

\* package.py:531-535: path / "sip"
SipDir(pkg) == <<PackagePath(pkg), "sip", "">>

\* package.py:596-608: "-<sip_id>" is in the file name when sip_id is set
SipFilename(pkg) == IF pkg.sip_id # "" THEN <<"tar", pkg.sip_id>>
                    ELSE <<"tar", "">>

\* package.py:610-614: path / sip_filename
SipArchivePath(pkg) ==
    <<PackagePath(pkg), SipFilename(pkg)[1], SipFilename(pkg)[2]>>

MuseumObjectPackages == [object_id : ObjectIds, sip_id : SipIds]

\* a file of the workspace or of the SIP directory, and the package that
\* wrote it
WrittenFile(name, pkg) == [name |-> name, by |-> pkg.sip_id]

\* a file is written at a directory: a file of that name is replaced
WriteFile(dir, name, pkg) ==
    {f \in dir : f.name # name} \cup {WrittenFile(name, pkg)}

\* the package directories after download_object: the archives of the
\* attachments are not extracted, nothing is assembled
Downloaded ==
    [p \in (ObjectIds \X {"workspace", "sip"} \X {""})
            \cup (ObjectIds \X {"tar"} \X SipIds) |->
        CASE p[2] = "workspace" -> {}
          [] p[2] = "sip" -> {WrittenFile("archive.zip", [sip_id |-> ""])}
          [] OTHER -> {}]

VariantInit ==
    /\ museum_packages \in
           {v \in [1..2 -> MuseumObjectPackages] : v[1] # v[2]}
    /\ package_dir = Downloaded
    /\ ppc = [x \in 1..2 |-> "idle"]

\* no package is assembled
VariantIdle ==
    /\ museum_packages = [x \in 1..2 |-> [object_id |-> x, sip_id |-> ""]]
    /\ package_dir = Downloaded
    /\ ppc = [x \in 1..2 |-> "idle"]

\* create_sip.py:38-40, package.py:69-90: from_path; the directories exist
FromPath(x) ==
    /\ ppc[x] = "idle"
    /\ ppc' = [ppc EXCEPT ![x] = "opened"]
    /\ UNCHANGED <<museum_packages, package_dir>>
    /\ UNCHANGED notVariantVars

\* package.py:792-794, 616-625: clear_workspace
VariantClean(x) ==
    /\ ppc[x] = "opened"
    /\ ppc' = [ppc EXCEPT ![x] = "Clean"]
    /\ package_dir' =
           [package_dir EXCEPT ![WorkspaceDir(museum_packages[x])] = {}]
    /\ UNCHANGED museum_packages
    /\ UNCHANGED notVariantVars

\* package.py:796-803, 627-661: every archive is replaced by the directory
\* of its entries
VariantExtract(x) ==
    LET pkg == museum_packages[x]
        sip == package_dir[SipDir(pkg)]
    IN  /\ ppc[x] = "Clean"
        /\ ppc' = [ppc EXCEPT ![x] = "ArchivesExtracted"]
        /\ package_dir' =
               [package_dir EXCEPT ![SipDir(pkg)] =
                   IF \E f \in sip : f.name = "archive.zip"
                   THEN WriteFile({f \in sip : f.name # "archive.zip"},
                                  "archive.zip/", pkg)
                   ELSE sip]
        /\ UNCHANGED museum_packages
        /\ UNCHANGED notVariantVars

\* package.py:805-823: import-object, create-mix and premis-event write to
\* the workspace
VariantImport(x) ==
    LET pkg == museum_packages[x]
    IN  /\ ppc[x] = "ArchivesExtracted"
        /\ ppc' = [ppc EXCEPT ![x] = "ProvenanceAdded"]
        /\ package_dir' =
               [package_dir EXCEPT ![WorkspaceDir(pkg)] =
                   WriteFile(@, "import-object", pkg)]
        /\ UNCHANGED museum_packages
        /\ UNCHANGED notVariantVars

\* package.py:824-828: import-description, compile-structmap, compile-mets
\* and sign-mets write mets.xml and signature.sig to the workspace
VariantSign(x) ==
    LET pkg == museum_packages[x]
    IN  /\ ppc[x] = "ProvenanceAdded"
        /\ ppc' = [ppc EXCEPT ![x] = "Signed"]
        /\ package_dir' =
               [package_dir EXCEPT ![WorkspaceDir(pkg)] =
                   WriteFile(WriteFile(@, "mets.xml", pkg),
                             "signature.sig", pkg)]
        /\ UNCHANGED museum_packages
        /\ UNCHANGED notVariantVars

\* package.py:759-778: os.rename of mets.xml and signature.sig, which raises
\* FileNotFoundError when the workspace has none, then tar
VariantCompress(x) ==
    LET pkg == museum_packages[x]
        workspace == package_dir[WorkspaceDir(pkg)]
        moved == {f \in workspace : f.name \in {"mets.xml", "signature.sig"}}
    IN  /\ ppc[x] = "Signed"
        /\ IF \A n \in {"mets.xml", "signature.sig"} :
                  \E f \in workspace : f.name = n
           THEN /\ ppc' = [ppc EXCEPT ![x] = "Compressed"]
                /\ package_dir' =
                       [package_dir EXCEPT
                           ![WorkspaceDir(pkg)] = @ \ moved,
                           ![SipDir(pkg)] =
                               {f \in @ : f.name \notin
                                    {"mets.xml", "signature.sig"}}
                                   \cup moved,
                           ![SipArchivePath(pkg)] =
                               {WrittenFile("tar", pkg)}]
           ELSE /\ ppc' = [ppc EXCEPT ![x] = "Failed"]
                /\ UNCHANGED package_dir
        /\ UNCHANGED museum_packages
        /\ UNCHANGED notVariantVars

VariantNext ==
    \E x \in 1..2 :
        \/ FromPath(x)
        \/ VariantClean(x)
        \/ VariantExtract(x)
        \/ VariantImport(x)
        \/ VariantSign(x)
        \/ VariantCompress(x)

(***************************************************************************)
(* The change-detection hash: get_xml_hash (passari/utils.py)              *)
(***************************************************************************)
\* the names of the fields of a document
FieldNames == {"__lastModified", "ObjObjectNumberTxt"}

\* utils.py:136, test_utils.py:86-89: volatile_field_queries
VolatileFieldQueries == {"__lastModified"}

\* text of an element, or after it
Texts == {"x", "y"}

\* an element of the tree: its name, its text, and the text between its end
\* tag and the next element (its tail)
Fields == [name : FieldNames, text : Texts, tail : Texts]

\* a document: the attribute of the root element and the fields below it
XmlDocuments ==
    [id : Texts, fields : UNION {[1..n -> Fields] : n \in 0..MaxFields}]

\* utils.py:147-151: every element a query finds is removed from its parent;
\* remove() takes the tail of the element with it
RemoveVolatile(root, queries) ==
    [root EXCEPT !.fields = SelectSeq(@, LAMBDA f : f.name \notin queries)]

\* utils.py:153-157: Canonical XML of what is left; strip_text has no effect
\* with method "c14n"
Tostring(root) == root

\* utils.py:158: sha256 of the canonical document
Sha256(data) == <<"sha256", data>>

\* utils.py:134-161
GetXmlHash(root, queries) == Sha256(Tostring(RemoveVolatile(root, queries)))

NotHashed == <<"not called">>

\* two documents with the same fields in the same order
HashInit ==
    /\ documents \in
           {d \in [1..2 -> XmlDocuments] :
               /\ Len(d[1].fields) = Len(d[2].fields)
               /\ \A k \in 1..Len(d[1].fields) :
                      d[1].fields[k].name = d[2].fields[k].name}
    /\ roots = documents
    /\ hashes = [i \in 1..2 |-> NotHashed]

\* no document is hashed
HashIdle ==
    /\ documents = [i \in 1..2 |-> [id |-> "x", fields |-> <<>>]]
    /\ roots = documents
    /\ hashes = [i \in 1..2 |-> NotHashed]

\* test_utils.py:80-92: get_xml_hash of one of the documents; the tree that
\* was given is left without its volatile fields
Hash(i) ==
    /\ hashes[i] = NotHashed
    /\ hashes' = [hashes EXCEPT ![i] = GetXmlHash(roots[i],
                                                  VolatileFieldQueries)]
    /\ roots' = [roots EXCEPT ![i] = RemoveVolatile(@, VolatileFieldQueries)]
    /\ UNCHANGED documents
    /\ UNCHANGED notHashVars

HashNext == \E i \in 1..2 : Hash(i)

(***************************************************************************)
(* The refresh of the session key file: refresh_session_key and            *)
(* get_museum_session (passari/museumplus/connection.py), the requests of  *)
(* passari/utils.py and download_attachment (passari/dpres/package.py)     *)
(***************************************************************************)
Responses == 1..NumResponses

\* the request is not sent yet
NoResponse ==
    [status |-> 0, how |-> "", pc |-> "idle", chunks |-> 0,
     response_started |-> FALSE, touches |-> 0]

\* a write_text in place of the touch
TouchTruncates(f, now) == [exists |-> TRUE, text |-> 0, mtime |-> now]

\* connection.py:63-64: path.touch() sets the mtime; a file that does not
\* exist is created empty
Touch(f, now) ==
    [exists |-> TRUE, text |-> IF f.exists THEN f.text ELSE 0, mtime |-> now]

TouchInit ==
    /\ responses = [r \in Responses |-> NoResponse]
    /\ sent = 0

\* no session
TouchIdle == TouchInit

\* utils.py:20, 34, 64, package.py:232: session.get or session.post; the
\* trace context of the request is new. The body is taken with
\* response.read() or from response.content
SessionGet(r, status, how) ==
    /\ responses[r].pc = "idle"
    /\ responses' = [responses EXCEPT ![r] =
                        [NoResponse EXCEPT !.status = status, !.how = how,
                                           !.pc = "headers"]]
    /\ sent' = sent + 1
    /\ UNCHANGED <<keyFile, clock>>
    /\ UNCHANGED aroundTouchVars

\* utils.py:23, 38, 67, package.py:236-241: raise_for_status(), and the
\* return of download_attachment on 404, before the body is read
RaiseForStatus(r) ==
    /\ responses[r].pc = "headers"
    /\ responses' = [responses EXCEPT ![r].pc =
                        IF responses[r].status >= 400 THEN "rejected"
                        ELSE "accepted"]
    /\ UNCHANGED <<keyFile, clock, sent>>
    /\ UNCHANGED aroundTouchVars

\* utils.py:24, 39, 68: response.read(): a chunk of the body is received and
\* on_response_chunk_received is sent; connection.py:46-66:
\* refresh_session_key touches the file if response_started is not set
ResponseRead(r) ==
    /\ responses[r].pc \in {"accepted", "reading"}
    /\ responses[r].how = "read"
    /\ responses[r].chunks < MaxChunks
    /\ IF ~responses[r].response_started
       THEN /\ keyFile' = Touch(keyFile, clock)
            /\ responses' = [responses EXCEPT
                                ![r].pc = "reading",
                                ![r].chunks = @ + 1,
                                ![r].response_started = TRUE,
                                ![r].touches = @ + 1]
       ELSE /\ responses' = [responses EXCEPT ![r].pc = "reading",
                                              ![r].chunks = @ + 1]
            /\ UNCHANGED keyFile
    /\ UNCHANGED <<clock, sent>>
    /\ UNCHANGED aroundTouchVars

\* package.py:246-250: response.content.read(CHUNK_SIZE): the stream is read,
\* no signal is sent
ContentRead(r) ==
    /\ responses[r].pc \in {"accepted", "reading"}
    /\ responses[r].how = "stream"
    /\ responses[r].chunks < MaxChunks
    /\ responses' = [responses EXCEPT ![r].pc = "reading",
                                      ![r].chunks = @ + 1]
    /\ UNCHANGED <<keyFile, clock, sent>>
    /\ UNCHANGED aroundTouchVars

\* the body is complete
ResponseDone(r) ==
    /\ responses[r].pc = "reading"
    /\ responses' = [responses EXCEPT ![r].pc = "done"]
    /\ UNCHANGED <<keyFile, clock, sent>>
    /\ UNCHANGED aroundTouchVars

\* time passes
TouchTick ==
    /\ \E t \in Instants : t > clock /\ clock' = t
    /\ UNCHANGED <<keyFile, responses, sent>>
    /\ UNCHANGED aroundTouchVars

TouchNext ==
    \/ TouchTick
    \/ \E r \in Responses :
         \/ \E status \in {200, 404, 500}, how \in {"read", "stream"} :
                SessionGet(r, status, how)
         \/ RaiseForStatus(r)
         \/ ResponseRead(r)
         \/ ContentRead(r)
         \/ ResponseDone(r)

(***************************************************************************)
(* gather_or_raise_first (passari/utils.py) on its own, with any number of *)
(* awaitables                                                              *)
(***************************************************************************)
NotGathered == [exc |-> NoExc, logged |-> {}]

\* utils.py:85-91: the tasks are made and asyncio.wait(FIRST_EXCEPTION) is
\* awaited
GatherInit ==
    /\ aws \in UNION {[1..n -> {[pc |-> "start", kind |-> "aw"]}] :
                          n \in 1..NumAws}
    /\ gpc = "waiting"
    /\ woke = aws
    /\ gathered = NotGathered

\* no call
GatherIdle ==
    /\ aws = [i \in 1..1 |-> [pc |-> "start", kind |-> "aw"]]
    /\ gpc = "waiting"
    /\ woke = aws
    /\ gathered = NotGathered

\* an awaitable returns or raises while the call waits
AwDone(i, pc) ==
    /\ gpc = "waiting"
    /\ Pending(aws[i])
    /\ aws' = [aws EXCEPT ![i].pc = pc]
    /\ UNCHANGED <<gpc, woke, gathered>>
    /\ UNCHANGED notGatherVars

\* utils.py:91-119: asyncio.wait(FIRST_EXCEPTION) returns once a task has
\* failed or all are done, and the rest of the function runs
GatherWake ==
    /\ gpc = "waiting"
    /\ \/ \E i \in DOMAIN aws : Failed(aws[i])
       \/ \A i \in DOMAIN aws : ~Pending(aws[i])
    /\ woke' = aws
    /\ LET out == GatherOutcome(aws)
       IN  /\ gpc' = IF out.exc = NoExc THEN "returned" ELSE "raised"
           /\ gathered' = [exc |-> out.exc, logged |-> out.logged]
           /\ aws' = out.tasks
    /\ UNCHANGED notGatherVars

GatherNext ==
    \/ \E i \in DOMAIN aws, pc \in {"ok", "failed"} : AwDone(i, pc)
    \/ GatherWake

(***************************************************************************)
(* clean_attachments and clean_collection_activities (passari/dpres/        *)
(* package.py) system call by system call, next to another process that    *)
(* removes directories                                                     *)
(***************************************************************************)
\* package.py:355-358: attachment_ids is built
PruneInit ==
    /\ pdirs \in SUBSET Ids
    /\ pkeep \in SUBSET Ids
    /\ prune = [pc |-> "glob", todo |-> {}, path |-> 0]
    /\ gone = {}

\* no pruning
PruneIdle ==
    /\ pdirs = {}
    /\ pkeep = {}
    /\ prune = [pc |-> "glob", todo |-> {}, path |-> 0]
    /\ gone = {}

\* package.py:360: glob("*") reads the whole directory before its first path
PruneGlob ==
    /\ prune.pc = "glob"
    /\ prune' = [prune EXCEPT !.pc = "for", !.todo = pdirs]
    /\ UNCHANGED <<pdirs, pkeep, gone>>
    /\ UNCHANGED notPruneVars

\* package.py:360: the next path of the loop, or its end
PruneFor ==
    /\ prune.pc = "for"
    /\ \/ /\ prune.todo = {}
          /\ prune' = [prune EXCEPT !.pc = "done", !.path = 0]
       \/ \E p \in prune.todo :
              prune' = [pc |-> "is_dir", todo |-> prune.todo \ {p}, path |-> p]
    /\ UNCHANGED <<pdirs, pkeep, gone>>
    /\ UNCHANGED notPruneVars

\* package.py:361: path.is_dir() (False for a missing path) and the name
\* test
PruneIsDir ==
    /\ prune.pc = "is_dir"
    /\ prune' = [prune EXCEPT !.pc =
                     IF prune.path \in pdirs /\ prune.path \notin pkeep
                     THEN "rmtree" ELSE "for"]
    /\ UNCHANGED <<pdirs, pkeep, gone>>
    /\ UNCHANGED notPruneVars

\* shutil.rmtree that ignores a missing path
RmtreeIgnoresMissing(ds, p) ==
    [dirs |-> ds \ {p}, pc |-> "for"]

\* package.py:362: shutil.rmtree(path) raises FileNotFoundError for a missing
\* path
Rmtree(ds, p) ==
    IF p \in ds THEN [dirs |-> ds \ {p}, pc |-> "for"]
    ELSE [dirs |-> ds, pc |-> "raised"]

PruneRmtree ==
    /\ prune.pc = "rmtree"
    /\ pdirs' = Rmtree(pdirs, prune.path).dirs
    /\ prune' = [prune EXCEPT !.pc = Rmtree(pdirs, prune.path).pc]
    /\ UNCHANGED <<pkeep, gone>>
    /\ UNCHANGED notPruneVars

\* another process removes a directory
OtherRemoves(p) ==
    /\ prune.pc \notin {"done", "raised"}
    /\ p \in pdirs
    /\ pdirs' = pdirs \ {p}
    /\ gone' = IF prune.pc # "glob" THEN gone \cup {p} ELSE gone
    /\ UNCHANGED <<pkeep, prune>>
    /\ UNCHANGED notPruneVars

PruneNext ==
    \/ PruneGlob
    \/ PruneFor
    \/ PruneIsDir
    \/ PruneRmtree
    \/ \E p \in Ids : OtherRemoves(p)

(***************************************************************************)
(* download_attachments (passari/dpres/package.py) with the filename check *)
(* of download_attachment                                                  *)
(***************************************************************************)
NoException == "none"

\* package.py:201-211: filename.encode("ascii")
FilenameCheck(ascii) ==
    IF ascii THEN NoException ELSE "PreservationError"

\* the filename the Multimedia document of each attachment gives, and
\* whether the document is cached already
NameInit ==
    /\ natt \in [Ids -> [ascii : BOOLEAN, xml : {"absent", "complete"},
                         requested : {FALSE}, payload : {FALSE}]]
    /\ ntasks = [i \in Ids |-> [pc |-> "start", kind |-> "att", exc |-> NoException]]
    /\ npc = "gathering"
    /\ nwoke = ntasks
    /\ nraised = NoException

\* no download
NameIdle ==
    /\ natt = [i \in Ids |-> [ascii |-> TRUE, xml |-> "absent",
                              requested |-> FALSE, payload |-> FALSE]]
    /\ ntasks = [i \in Ids |-> [pc |-> "start", kind |-> "att", exc |-> NoException]]
    /\ npc = "gathering"
    /\ nwoke = ntasks
    /\ nraised = NoException

\* package.py:196-225, 232: with the document at hand the filename is
\* checked, then the payload is requested
NameAfterXml(i) ==
    IF FilenameCheck(natt[i].ascii) # NoException
    THEN /\ ntasks' = [ntasks EXCEPT ![i].pc = "failed",
                                    ![i].exc = FilenameCheck(natt[i].ascii)]
         /\ natt' = [natt EXCEPT ![i].xml = "complete"]
    ELSE /\ ntasks' = [ntasks EXCEPT ![i].pc = "await_payload"]
         /\ natt' = [natt EXCEPT ![i].xml = "complete", ![i].requested = TRUE]

\* package.py:187-194 and utils.py:58-66: a cached document is read, a
\* missing one is requested
NameStart(i) ==
    /\ npc = "gathering"
    /\ ntasks[i].pc = "start"
    /\ IF natt[i].xml = "complete"
       THEN NameAfterXml(i)
       ELSE /\ ntasks' = [ntasks EXCEPT ![i].pc = "await_xml"]
            /\ UNCHANGED natt
    /\ UNCHANGED <<npc, nwoke, nraised>>
    /\ UNCHANGED notNameVars

\* utils.py:67-73: the document is received and written
NameXml(i) ==
    /\ npc = "gathering"
    /\ ntasks[i].pc = "await_xml"
    /\ NameAfterXml(i)
    /\ UNCHANGED <<npc, nwoke, nraised>>
    /\ UNCHANGED notNameVars

\* package.py:232-268: the payload is received and renamed into place
NamePayload(i) ==
    /\ npc = "gathering"
    /\ ntasks[i].pc = "await_payload"
    /\ ntasks' = [ntasks EXCEPT ![i].pc = "ok"]
    /\ natt' = [natt EXCEPT ![i].payload = TRUE]
    /\ UNCHANGED <<npc, nwoke, nraised>>
    /\ UNCHANGED notNameVars

\* a request raises
NameFail(i) ==
    /\ npc = "gathering"
    /\ ntasks[i].pc \in {"await_xml", "await_payload"}
    /\ ntasks' = [ntasks EXCEPT ![i].pc = "failed", ![i].exc = "ClientError"]
    /\ UNCHANGED <<natt, npc, nwoke, nraised>>
    /\ UNCHANGED notNameVars

\* package.py:280: gather_or_raise_first resumes once a task has failed or
\* all are done
NameWake ==
    /\ npc = "gathering"
    /\ \/ \E i \in Ids : Failed(ntasks[i])
       \/ \A i \in Ids : ~Pending(ntasks[i])
    /\ nwoke' = ntasks
    /\ LET out == GatherOutcome(ntasks)
       IN  /\ npc' = IF out.exc = NoExc THEN "done" ELSE "raised"
           /\ nraised' = IF out.exc.kind = "task" THEN ntasks[out.exc.id].exc
                         ELSE out.exc.kind
           /\ ntasks' = out.tasks
    /\ UNCHANGED natt
    /\ UNCHANGED notNameVars

NameNext ==
    \/ \E i \in Ids :
         \/ NameStart(i)
         \/ NameXml(i)
         \/ NamePayload(i)
         \/ NameFail(i)
    \/ NameWake

(***************************************************************************)
(* generate_sip (passari/dpres/package.py) called again and again on one   *)
(* package directory whose attachments are zip archives                    *)
(***************************************************************************)
Zips == 1..MaxFiles

RerunInit ==
    /\ rfs = [i \in Zips |-> [archive |-> "file", extract |-> FALSE]]
    /\ rworkspace = {}
    /\ rtar = 0
    /\ rstage = "Idle"
    /\ rtodo = {}
    /\ rerror = "none"
    /\ expanded = {}
    /\ runs = 0

RerunIdle == RerunInit

\* package.py:441-452, 486-491: the attachments whose archive is a file;
\* what is inside an expanded archive holds no archive
RerunArchiveFiles(f) == {i \in Zips : f[i].archive = "file"}

\* package.py:780-794: clear_workspace(), populate_files(), archive_files
RerunStart ==
    /\ rstage \in {"Idle", "Done", "Failed"}
    /\ runs < MaxRuns
    /\ runs' = runs + 1
    /\ rworkspace' = {}
    /\ rtodo' = RerunArchiveFiles(rfs)
    /\ rstage' = "Clean"
    /\ rerror' = "none"
    /\ expanded' = {}
    /\ UNCHANGED <<rfs, rtar>>
    /\ UNCHANGED notRerunVars

\* package.py:634-635: destination_path.mkdir() raises FileExistsError when
\* <archive>.extract is there already
RerunMkdir ==
    /\ rstage = "Clean" /\ rtodo # {}
    /\ LET i == Min(rtodo)
       IN  IF rfs[i].extract
           THEN /\ rstage' = "Failed"
                /\ rerror' = "FileExistsError"
                /\ UNCHANGED rfs
           ELSE /\ rfs' = [rfs EXCEPT ![i].extract = TRUE]
                /\ rstage' = "unzip"
                /\ UNCHANGED rerror
    /\ UNCHANGED <<rworkspace, rtar, rtodo, expanded, runs>>
    /\ UNCHANGED notRerunVars

\* package.py:637-646: unzip returned; after a success the archive is
\* removed and the directory takes its name
RerunUnzipReturn(rc) ==
    /\ rstage = "unzip"
    /\ LET i == Min(rtodo)
       IN  IF rc = 0
           THEN /\ rfs' = [rfs EXCEPT ![i] = [archive |-> "dir", extract |-> FALSE]]
                /\ expanded' = expanded \cup {i}
                /\ rstage' = "premis-event"
                /\ UNCHANGED rerror
           ELSE /\ rstage' = "Failed"
                /\ rerror' = "CalledProcessError"
                /\ UNCHANGED <<rfs, expanded>>
    /\ UNCHANGED <<rworkspace, rtar, rtodo, runs>>
    /\ UNCHANGED notRerunVars

\* package.py:649-661: the premis-event of the extraction returned
RerunEventReturn(rc) ==
    /\ rstage = "premis-event"
    /\ IF rc = 0
       THEN /\ rworkspace' = rworkspace \cup {Min(rtodo)}
            /\ rtodo' = rtodo \ {Min(rtodo)}
            /\ rstage' = "Clean"
            /\ UNCHANGED rerror
       ELSE /\ rstage' = "Failed"
            /\ rerror' = "CalledProcessError"
            /\ UNCHANGED <<rworkspace, rtodo>>
    /\ UNCHANGED <<rfs, rtar, expanded, runs>>
    /\ UNCHANGED notRerunVars

\* package.py:809-833: the loops and commands of generate_sip between the
\* extraction and compress, by the stage each completes
RerunStages ==
    <<"Clean", "Imported", "DerivedMetadataGenerated", "ProvenanceAdded",
      "DescriptionImported", "MetsCompiled", "Signed">>

\* package.py:809-833: the commands of the next stage succeed, or one fails
RerunAssemble(rc) ==
    /\ rtodo = {}
    /\ \E k \in 1..(Len(RerunStages) - 1) :
           /\ rstage = RerunStages[k]
           /\ IF rc = 0
              THEN rstage' = RerunStages[k + 1] /\ UNCHANGED rerror
              ELSE rstage' = "Failed" /\ rerror' = "CalledProcessError"
    /\ UNCHANGED <<rfs, rworkspace, rtar, rtodo, expanded, runs>>
    /\ UNCHANGED notRerunVars

\* package.py:759-778, 834: tar writes sip_archive_path and generate_sip
\* returns, or tar fails
RerunCompress(rc) ==
    /\ rstage = "Signed"
    /\ IF rc = 0
       THEN rstage' = "Done" /\ rtar' = runs /\ UNCHANGED rerror
       ELSE rstage' = "Failed" /\ rerror' = "CalledProcessError" /\ UNCHANGED rtar
    /\ UNCHANGED <<rfs, rworkspace, rtodo, expanded, runs>>
    /\ UNCHANGED notRerunVars

RerunNext ==
    \/ RerunStart
    \/ RerunMkdir
    \/ \E rc \in ExitCodes : RerunUnzipReturn(rc)
    \/ \E rc \in ExitCodes : RerunEventReturn(rc)
    \/ \E rc \in ExitCodes : RerunAssemble(rc)
    \/ \E rc \in ExitCodes : RerunCompress(rc)

(***************************************************************************)
(* The results of an object search: ObjectSearchResponse                   *)
(* (passari/museumplus/search.py)                                          *)
(***************************************************************************)
SearchInit ==
    /\ response \in XmlDocuments
    /\ etree = response
    /\ results = <<>>

\* no search
SearchIdle ==
    /\ response = [id |-> "x", fields |-> <<>>]
    /\ etree = response
    /\ results = <<>>

\* search.py:100-110: the text of the first __lastModified field, None when
\* find() returns None (AttributeError)
ModifiedDate(module_item) ==
    LET found == SelectSeq(module_item.fields,
                           LAMBDA f : f.name = "__lastModified")
    IN  IF found = <<>> THEN "None" ELSE Head(found).text

\* search.py:85-161: the result made of a moduleItem
ModuleItemToResult(module_item) ==
    [id |-> module_item.id,
     modified_date |-> ModifiedDate(module_item),
     xml_hash |-> GetXmlHash(module_item, VolatileFieldQueries)]

\* search.py:68-78, 85-161: .results is read; get_xml_hash leaves the tree
\* of the response without its volatile fields
ReadResults ==
    /\ Len(results) < MaxParses
    /\ results' = Append(results, ModuleItemToResult(etree))
    /\ etree' = RemoveVolatile(etree, VolatileFieldQueries)
    /\ UNCHANGED response
    /\ UNCHANGED notSearchVars

SearchNext == ReadResults

(***************************************************************************)
(* submit_sip (passari/scripts/submit_sip.py): the archive is uploaded to  *)
(* the transfer directory of the preservation service                     *)
(***************************************************************************)
NoRemoteFile == [exists |-> FALSE, size |-> 0]

SubmitInit ==
    /\ spc = "idle"
    /\ sarchive \in [exists : BOOLEAN, size : 1..MaxBlocks]
    /\ stemp = NoRemoteFile
    /\ sfinal = NoRemoteFile
    /\ sruns = 0

\* no submission
SubmitIdle ==
    /\ spc = "idle"
    /\ sarchive = [exists |-> FALSE, size |-> 1]
    /\ stemp = NoRemoteFile
    /\ sfinal = NoRemoteFile
    /\ sruns = 0

\* submit_sip.py:24, ssh.py:8-26: the connection is made, or is not
SubmitConnect ==
    /\ spc = "idle"
    /\ sruns < MaxRuns
    /\ sruns' = sruns + 1
    /\ spc' \in {"connected", "failed"}
    /\ UNCHANGED <<sarchive, stemp, sfinal>>
    /\ UNCHANGED notSubmitVars

\* the bytes of sftp.put go to the final name
SubmitPutWriteFinal ==
    /\ spc = "put"
    /\ stemp.size < sarchive.size
    /\ stemp' = [stemp EXCEPT !.size = @ + 1]
    /\ sfinal' = [exists |-> TRUE, size |-> stemp.size + 1]
    /\ UNCHANGED <<spc, sarchive, sruns>>
    /\ UNCHANGED notSubmitVars

\* submit_sip.py:33-36: sftp.put stats and opens the local archive, then
\* opens the remote ".incomplete" file for writing, which empties it
SubmitPutOpen ==
    /\ spc = "connected"
    /\ IF sarchive.exists
         THEN /\ stemp' = [exists |-> TRUE, size |-> 0]
              /\ spc' = "put"
         ELSE /\ stemp' = stemp
              /\ spc' = "failed"
    /\ UNCHANGED <<sarchive, sfinal, sruns>>
    /\ UNCHANGED notSubmitVars

\* submit_sip.py:33-36: sftp.put writes the next block to the ".incomplete"
\* file
SubmitPutWrite ==
    /\ spc = "put"
    /\ stemp.size < sarchive.size
    /\ stemp' = [stemp EXCEPT !.size = @ + 1]
    /\ UNCHANGED <<spc, sarchive, sfinal, sruns>>
    /\ UNCHANGED notSubmitVars

\* submit_sip.py:33-36: sftp.put closes the remote file and returns once
\* the size of the remote file is the size of the archive
SubmitPutReturn ==
    /\ spc = "put"
    /\ stemp.size = sarchive.size
    /\ spc' = "uploaded"
    /\ UNCHANGED <<sarchive, stemp, sfinal, sruns>>
    /\ UNCHANGED notSubmitVars

\* submit_sip.py:39-42: sftp.rename; a server refuses to rename onto an
\* existing file or replaces it
SubmitRename ==
    /\ spc = "uploaded"
    /\ \/ /\ sfinal' = stemp
          /\ stemp' = NoRemoteFile
          /\ spc' = "done"
       \/ /\ sfinal.exists
          /\ UNCHANGED <<stemp, sfinal>>
          /\ spc' = "failed"
    /\ UNCHANGED <<sarchive, sruns>>
    /\ UNCHANGED notSubmitVars

\* the connection is lost, the process is killed
SubmitFail ==
    /\ spc \in {"connected", "put", "uploaded"}
    /\ spc' = "failed"
    /\ UNCHANGED <<sarchive, stemp, sfinal, sruns>>
    /\ UNCHANGED notSubmitVars

\* submit_sip.py:72-92: submit-sip is run again for the package
SubmitAgain ==
    /\ spc \in {"done", "failed"}
    /\ sruns < MaxRuns
    /\ spc' = "idle"
    /\ UNCHANGED <<sarchive, stemp, sfinal, sruns>>
    /\ UNCHANGED notSubmitVars

SubmitNext ==
    \/ SubmitConnect
    \/ SubmitPutOpen
    \/ SubmitPutWrite
    \/ SubmitPutReturn
    \/ SubmitRename
    \/ SubmitFail
    \/ SubmitAgain

(***************************************************************************)
(* confirm_sip (passari/scripts/confirm_sip.py)                            *)
(***************************************************************************)
Statuses == {"accepted", "rejected", "pending"}

\* the preservation field: absent, not JSON, or a JSON list of events
PreservationFields ==
    {[kind |-> "none", events |-> <<>>], [kind |-> "corrupt", events |-> <<>>]}
    \cup {[kind |-> "json", events |-> e] :
            e \in {<<>>, <<"accepted">>, <<"rejected">>}}

ConfirmInit ==
    /\ confpc = "start"
    /\ cstatus \in Statuses
    /\ clogentries \in BOOLEAN
    /\ cfield \in PreservationFields
    /\ cevents = <<>>
    /\ cgzipped = FALSE
    /\ carchived = FALSE
    /\ cstored = FALSE
    /\ cdir = TRUE

\* no confirmation
ConfirmIdle ==
    /\ confpc = "start"
    /\ cstatus = "accepted"
    /\ clogentries = FALSE
    /\ cfield = [kind |-> "none", events |-> <<>>]
    /\ cevents = <<>>
    /\ cgzipped = FALSE
    /\ carchived = FALSE
    /\ cstored = FALSE
    /\ cdir = TRUE

confirmRest == <<cstatus, clogentries>>

\* confirm_sip.py:32-33
ConfirmStatus ==
    /\ confpc = "start"
    /\ confpc' = IF cstatus \notin {"accepted", "rejected"}
                THEN "invalid" ELSE "load"
    /\ UNCHANGED <<cfield, cevents, cgzipped, carchived, cstored, cdir>>
    /\ UNCHANGED confirmRest
    /\ UNCHANGED notConfirmVars

\* confirm_sip.py:35-37: the package is loaded and the session made, or an
\* exception leaves confirm_sip
ConfirmFromPath(ok) ==
    /\ confpc = "load"
    /\ confpc' = IF ok THEN "gzip" ELSE "failed"
    /\ UNCHANGED <<cfield, cevents, cgzipped, carchived, cstored, cdir>>
    /\ UNCHANGED confirmRest
    /\ UNCHANGED notConfirmVars

\* package.py:464-470: mkdir, then gzip --recursive with check=True
ConfirmGzip(rc) ==
    /\ confpc = "gzip"
    /\ cgzipped' = (rc = 0)
    /\ confpc' = IF rc = 0 THEN "copy" ELSE "failed"
    /\ UNCHANGED <<cfield, cevents, carchived, cstored, cdir>>
    /\ UNCHANGED confirmRest
    /\ UNCHANGED notConfirmVars

\* cp -r run without check: its return code is not looked at
ConfirmCopyUnchecked(rc) ==
    /\ confpc = "copy"
    /\ carchived' = (rc = 0)
    /\ confpc' = IF clogentries THEN "events" ELSE "rmtree"
    /\ UNCHANGED <<cfield, cevents, cgzipped, cstored, cdir>>
    /\ UNCHANGED confirmRest
    /\ UNCHANGED notConfirmVars

\* package.py:472-477, confirm_sip.py:41: cp -r with check=True, then the
\* add_log_entries setting decides what follows
ConfirmCopy(rc) ==
    /\ confpc = "copy"
    /\ carchived' = (rc = 0)
    /\ confpc' = IF rc # 0 THEN "failed"
              ELSE IF clogentries THEN "events" ELSE "rmtree"
    /\ UNCHANGED <<cfield, cevents, cgzipped, cstored, cdir>>
    /\ UNCHANGED confirmRest
    /\ UNCHANGED notConfirmVars

\* fields.py:95-123: the events are read; no field counts as an empty list,
\* a field that is not JSON raises ValueError, a failed request raises
ConfirmGetEvents(ok) ==
    /\ confpc = "events"
    /\ IF ok /\ cfield.kind # "corrupt"
         THEN /\ cevents' = Append(cfield.events, cstatus)
              /\ confpc' = "put"
         ELSE /\ cevents' = cevents
              /\ confpc' = "failed"
    /\ UNCHANGED <<cfield, cgzipped, carchived, cstored, cdir>>
    /\ UNCHANGED confirmRest
    /\ UNCHANGED notConfirmVars

\* fields.py:125-132, 81-88: the PUT of the field; it is answered, refused,
\* or the answer is lost after the server stored the field
ConfirmSetField(answer) ==
    /\ confpc = "put"
    /\ IF answer \in {"ok", "lost"}
         THEN /\ cfield' = [kind |-> "json", events |-> cevents]
              /\ cstored' = TRUE
         ELSE UNCHANGED <<cfield, cstored>>
    /\ confpc' = IF answer = "ok" THEN "rmtree" ELSE "failed"
    /\ UNCHANGED <<cevents, cgzipped, carchived, cdir>>
    /\ UNCHANGED confirmRest
    /\ UNCHANGED notConfirmVars

\* confirm_sip.py:47-50
ConfirmRmtree ==
    /\ confpc = "rmtree"
    /\ cdir' = FALSE
    /\ confpc' = "done"
    /\ UNCHANGED <<cfield, cevents, cgzipped, carchived, cstored>>
    /\ UNCHANGED confirmRest
    /\ UNCHANGED notConfirmVars

ConfirmNext ==
    \/ ConfirmStatus
    \/ \E ok \in BOOLEAN : ConfirmFromPath(ok)
    \/ \E rc \in {0, 1} : ConfirmGzip(rc)
    \/ \E rc \in {0, 1} : ConfirmCopy(rc)
    \/ \E ok \in BOOLEAN : ConfirmGetEvents(ok)
    \/ \E answer \in {"ok", "refused", "lost"} : ConfirmSetField(answer)
    \/ ConfirmRmtree

InitKey ==
    /\ CallIdle
    /\ KeyInit
    /\ FetchIdle
    /\ SipIdle
    /\ ClassifyIdle
    /\ PremisIdle
    /\ VariantIdle
    /\ HashIdle
    /\ TouchIdle
    /\ GatherIdle
    /\ PruneIdle
    /\ NameIdle
    /\ RerunIdle
    /\ SearchIdle
    /\ SubmitIdle
    /\ ConfirmIdle

SpecKey == InitKey /\ [][KeyNext]_vars

InitFetch ==
    /\ CallIdle
    /\ FetchInit
    /\ KeyIdle
    /\ SipIdle
    /\ ClassifyIdle
    /\ PremisIdle
    /\ VariantIdle
    /\ HashIdle
    /\ TouchIdle
    /\ GatherIdle
    /\ PruneIdle
    /\ NameIdle
    /\ RerunIdle
    /\ SearchIdle
    /\ SubmitIdle
    /\ ConfirmIdle

SpecFetch == InitFetch /\ [][FetchNext]_vars

InitSip ==
    /\ CallIdle
    /\ SipInit
    /\ KeyIdle
    /\ FetchIdle
    /\ ClassifyIdle
    /\ PremisIdle
    /\ VariantIdle
    /\ HashIdle
    /\ TouchIdle
    /\ GatherIdle
    /\ PruneIdle
    /\ NameIdle
    /\ RerunIdle
    /\ SearchIdle
    /\ SubmitIdle
    /\ ConfirmIdle

SpecSip == InitSip /\ [][SipNext]_vars

InitClassify ==
    /\ CallIdle
    /\ ClassifyInit
    /\ KeyIdle
    /\ FetchIdle
    /\ SipIdle
    /\ PremisIdle
    /\ VariantIdle
    /\ HashIdle
    /\ TouchIdle
    /\ GatherIdle
    /\ PruneIdle
    /\ NameIdle
    /\ RerunIdle
    /\ SearchIdle
    /\ SubmitIdle
    /\ ConfirmIdle

SpecClassify == InitClassify /\ [][ClassifyNext]_vars

InitCall ==
    /\ CallInit
    /\ KeyIdle
    /\ FetchIdle
    /\ SipIdle
    /\ ClassifyIdle
    /\ PremisIdle
    /\ VariantIdle
    /\ HashIdle
    /\ TouchIdle
    /\ GatherIdle
    /\ PruneIdle
    /\ NameIdle
    /\ RerunIdle
    /\ SearchIdle
    /\ SubmitIdle
    /\ ConfirmIdle

SpecCall == InitCall /\ [][CallNext]_vars

InitPremis ==
    /\ PremisInit
    /\ KeyIdle
    /\ FetchIdle
    /\ SipIdle
    /\ ClassifyIdle
    /\ CallIdle
    /\ VariantIdle
    /\ HashIdle
    /\ TouchIdle
    /\ GatherIdle
    /\ PruneIdle
    /\ NameIdle
    /\ RerunIdle
    /\ SearchIdle
    /\ SubmitIdle
    /\ ConfirmIdle

SpecPremis == InitPremis /\ [][PremisNext]_vars

InitVariant ==
    /\ VariantInit
    /\ KeyIdle
    /\ FetchIdle
    /\ SipIdle
    /\ ClassifyIdle
    /\ CallIdle
    /\ PremisIdle
    /\ HashIdle
    /\ TouchIdle
    /\ GatherIdle
    /\ PruneIdle
    /\ NameIdle
    /\ RerunIdle
    /\ SearchIdle
    /\ SubmitIdle
    /\ ConfirmIdle

SpecVariant == InitVariant /\ [][VariantNext]_vars

InitHash ==
    /\ HashInit
    /\ KeyIdle
    /\ FetchIdle
    /\ SipIdle
    /\ ClassifyIdle
    /\ CallIdle
    /\ PremisIdle
    /\ VariantIdle
    /\ TouchIdle
    /\ GatherIdle
    /\ PruneIdle
    /\ NameIdle
    /\ RerunIdle
    /\ SearchIdle
    /\ SubmitIdle
    /\ ConfirmIdle

SpecHash == InitHash /\ [][HashNext]_vars

InitTouch ==
    /\ TouchInit
    /\ KeyIdle
    /\ FetchIdle
    /\ SipIdle
    /\ ClassifyIdle
    /\ CallIdle
    /\ PremisIdle
    /\ VariantIdle
    /\ HashIdle
    /\ GatherIdle
    /\ PruneIdle
    /\ NameIdle
    /\ RerunIdle
    /\ SearchIdle
    /\ SubmitIdle
    /\ ConfirmIdle

SpecTouch == InitTouch /\ [][TouchNext]_vars

InitGather ==
    /\ GatherInit
    /\ KeyIdle
    /\ FetchIdle
    /\ SipIdle
    /\ ClassifyIdle
    /\ CallIdle
    /\ PremisIdle
    /\ VariantIdle
    /\ HashIdle
    /\ TouchIdle
    /\ PruneIdle
    /\ NameIdle
    /\ RerunIdle
    /\ SearchIdle
    /\ SubmitIdle
    /\ ConfirmIdle

SpecGather == InitGather /\ [][GatherNext]_vars

InitPrune ==
    /\ PruneInit
    /\ KeyIdle
    /\ FetchIdle
    /\ SipIdle
    /\ ClassifyIdle
    /\ CallIdle
    /\ PremisIdle
    /\ VariantIdle
    /\ HashIdle
    /\ TouchIdle
    /\ GatherIdle
    /\ NameIdle
    /\ RerunIdle
    /\ SearchIdle
    /\ SubmitIdle
    /\ ConfirmIdle

SpecPrune == InitPrune /\ [][PruneNext]_vars

InitName ==
    /\ NameInit
    /\ KeyIdle
    /\ FetchIdle
    /\ SipIdle
    /\ ClassifyIdle
    /\ CallIdle
    /\ PremisIdle
    /\ VariantIdle
    /\ HashIdle
    /\ TouchIdle
    /\ GatherIdle
    /\ PruneIdle
    /\ RerunIdle
    /\ SearchIdle
    /\ SubmitIdle
    /\ ConfirmIdle

SpecName == InitName /\ [][NameNext]_vars

InitRerun ==
    /\ RerunInit
    /\ KeyIdle
    /\ FetchIdle
    /\ SipIdle
    /\ ClassifyIdle
    /\ CallIdle
    /\ PremisIdle
    /\ VariantIdle
    /\ HashIdle
    /\ TouchIdle
    /\ GatherIdle
    /\ PruneIdle
    /\ NameIdle
    /\ SearchIdle
    /\ SubmitIdle
    /\ ConfirmIdle

SpecRerun == InitRerun /\ [][RerunNext]_vars

InitSearch ==
    /\ SearchInit
    /\ KeyIdle
    /\ FetchIdle
    /\ SipIdle
    /\ ClassifyIdle
    /\ CallIdle
    /\ PremisIdle
    /\ VariantIdle
    /\ HashIdle
    /\ TouchIdle
    /\ GatherIdle
    /\ PruneIdle
    /\ NameIdle
    /\ RerunIdle
    /\ SubmitIdle
    /\ ConfirmIdle

SpecSearch == InitSearch /\ [][SearchNext]_vars

InitSubmit ==
    /\ SubmitInit
    /\ KeyIdle
    /\ FetchIdle
    /\ SipIdle
    /\ ClassifyIdle
    /\ CallIdle
    /\ PremisIdle
    /\ VariantIdle
    /\ HashIdle
    /\ TouchIdle
    /\ GatherIdle
    /\ PruneIdle
    /\ NameIdle
    /\ RerunIdle
    /\ SearchIdle
    /\ ConfirmIdle

SpecSubmit == InitSubmit /\ [][SubmitNext]_vars

InitConfirm ==
    /\ ConfirmInit
    /\ KeyIdle
    /\ FetchIdle
    /\ SipIdle
    /\ ClassifyIdle
    /\ CallIdle
    /\ PremisIdle
    /\ VariantIdle
    /\ HashIdle
    /\ TouchIdle
    /\ GatherIdle
    /\ PruneIdle
    /\ NameIdle
    /\ RerunIdle
    /\ SearchIdle
    /\ SubmitIdle

SpecConfirm == InitConfirm /\ [][ConfirmNext]_vars

(***************************************************************************)
(* The session key cache with fair scheduling: the callers as processes,   *)
(* and the callers as coroutines of one event loop                         *)
(***************************************************************************)
\* a step of caller c in get_museum_session_key
CallerStep(c) ==
    \/ KeyStat(c)
    \/ KeyRead(c)
    \/ KeyLock(c)
    \/ KeyExchangeOk(c)
    \/ KeyExchangeFail(c)
    \/ KeyTruncate(c)
    \/ KeyWrite(c)

\* processes: each one is scheduled again and again
SpecKeyLive ==
    InitKey /\ [][KeyNext]_vars /\ \A c \in Callers : WF_vars(CallerStep(c))

\* connection.py:75-147: the coroutines that hold the thread of the event
\* loop.  Between its start and `await retrieve_xml` (line 104), and between
\* the answer and `await session.close()` (line 112), a coroutine does not
\* suspend: stat(), read_text(), FileLock.acquire() with its time.sleep() and
\* write_text() are synchronous calls.
OnLoop == {c \in Callers : callers[c].pc \in {"read", "lock", "write", "write2"}}

\* the event loop runs c when no other coroutine holds the thread
LoopStep(c) == OnLoop \subseteq {c} /\ CallerStep(c)

KeyLoopNext ==
    \/ Tick
    \/ \E c \in Callers : LoopStep(c)

\* coroutines of one event loop: the loop runs each ready coroutine
SpecKeyLoop ==
    InitKey /\ [][KeyLoopNext]_vars /\ \A c \in Callers : WF_vars(LoopStep(c))

(***************************************************************************)
(* Claims about the session key cache                                      *)
(***************************************************************************)
\* the call found the persisted key stale (or missing) before taking the lock
ObservedStale(c) == callers[c].path \in {"refresh", "nofile"}

\* C1: callers that concurrently observe the same stale persisted token
\* (their timestamp reads saw the same version of the key file, and no time
\* has passed since) perform one credential exchange in total and return
\* the same token.
C1_OneExchangeSameToken ==
    \A a, b \in Callers :
        ( /\ a # b
          /\ ObservedStale(a) /\ ObservedStale(b)
          /\ callers[a].statGen = callers[b].statGen
          /\ callers[a].statClock = clock /\ callers[b].statClock = clock )
        => /\ callers[a].exchanged + callers[b].exchanged <= 1
           /\ (callers[a].pc = "done" /\ callers[b].pc = "done"
                 => callers[a].result = callers[b].result)

\* the call went through lines 127-128 and line 140
Checked(c) == callers[c].path \in {"cached", "refresh"}

\* C8 as stated: age below 600 seconds returns the persisted key, any other
\* age (600 seconds or more) takes the refresh path.
C8_FreshBelowTimeout ==
    \A c \in Callers :
        Checked(c) =>
            (callers[c].path = "cached"
                <=> callers[c].age < SESSION_KEY_REGENERATE_TIMEOUT)

\* C8 as amended: a persisted key of age at most 600 seconds is returned as
\* read, with no credential exchange and no write of the key file by the
\* call; an age of more than 600 seconds takes the refresh path, and every
\* exchange and write of that path happens under the lock.
C8_FreshUpToTimeoutInv ==
    \A c \in Callers :
        /\ Checked(c) =>
             (callers[c].path = "cached"
                 <=> callers[c].age <= SESSION_KEY_REGENERATE_TIMEOUT)
        /\ callers[c].path = "cached" =>
             /\ callers[c].pc = "done"
             /\ callers[c].result = callers[c].session_key
             /\ callers[c].attempts = 0
             /\ ~callers[c].wrote
        /\ callers[c].pc \in {"exchange", "write", "write2"} => lock = c

C8_FreshUpToTimeoutStep ==
    \A c \in Callers :
        (callers[c].pc = "read" /\ callers'[c].path = "cached")
        => /\ callers'[c].result = Str(keyFile.text)
           /\ keyFile' = keyFile
           /\ issued' = issued

C8_FreshUpToTimeout ==
    []C8_FreshUpToTimeoutInv /\ [][C8_FreshUpToTimeoutStep]_vars

\* a call returned a key of age exactly 600 from the cache, and another
\* call is on the refresh path holding the lock
C8_Witness ==
    /\ \E c \in Callers :
         /\ callers[c].path = "cached"
         /\ callers[c].age = SESSION_KEY_REGENERATE_TIMEOUT
         /\ callers[c].pc = "done"
    /\ \E d \in Callers :
         /\ callers[d].path = "refresh"
         /\ callers[d].pc = "exchange"
         /\ lock = d

\* C9: a failing credential exchange propagates out of the call: the step
\* leaves the key file as it was, releases the lock and issues no key, and
\* the call that raised does nothing afterwards (no second exchange).
C9_FailStep ==
    \A c \in Callers :
        /\ (callers[c].pc = "exchange" /\ callers'[c].pc = "raised")
           => /\ keyFile' = keyFile
              /\ lock' = 0
              /\ issued' = issued
              /\ callers'[c].attempts = callers[c].attempts
        /\ callers[c].pc = "raised" => callers'[c] = callers[c]

C9_RaisedInv ==
    \A c \in Callers :
        /\ callers[c].pc = "raised" => lock # c
        /\ callers[c].pc = "exchange" => lock = c

C2_FailFast ==
    ( /\ fpc = "failed"
      /\ Cardinality(wake.failed) = 1
      /\ wake.pending # {} )
    => /\ raised = [kind |-> "task", id |-> Min(wake.failed)]
       /\ wake.cancelled = wake.pending
       /\ wake.unfinished = {}

\* the attachments of the record that had no payload file when
\* download_package began
MissingPayloads == {i \in refs.att : ~before.att[i].payload.exists}

\* C3 as stated: a download_package that follows a successful one, for the
\* same ids, sends no request.
C3_NoRequestsOnRerun == rerun => requests = {}

\* C3 as amended: such a download_package sends no metadata request, and a
\* payload request only for the attachments that have no payload file (the
\* ones answered with 404 or with an empty body); when it returns it has
\* sent that request for each of them.
C3_RerunRequestsMissingPayloads ==
    rerun =>
        /\ requests \subseteq {<<"attachment", i>> : i \in MissingPayloads}
        /\ fpc = "done" => requests = {<<"attachment", i>> : i \in MissingPayloads}

\* a second download_package returned after asking again for a payload,
\* while another attachment, whose payload was in place, was not asked for
C3_Witness ==
    /\ rerun
    /\ fpc = "done"
    /\ requests # {}
    /\ \E i \in refs.att : before.att[i].payload.exists

\* C6: a file under the name of the attachment holds the whole body
C6_WholeBody ==
    \A i \in Ids :
        att[i].payload.exists =>
            /\ att[i].payload.chunks = att[i].payload.of
            /\ att[i].payload.chunks > 0

\* C6: the file under the name of the attachment only ever appears by the
\* rename of a temporary file that holds the whole body
C6_OnlyRename ==
    \A i \in Ids :
        (att'[i].payload # att[i].payload /\ att'[i].payload.exists)
        => /\ att[i].temp.exists
           /\ att[i].temp.chunks = att[i].temp.of
           /\ att'[i].payload = att[i].temp
           /\ ~att'[i].temp.exists

\* C6: in every state of a download, a crash or a failed read included, the
\* attachment's final path holds a file only if the whole body was written,
\* and it gets there only by the rename that follows the last chunk.
C6_NoPartialPayload == []C6_WholeBody /\ [][C6_OnlyRename]_vars

\* the process was killed in the middle of a body, and another attachment
\* was downloaded in full
C6_Witness ==
    /\ fpc = "crashed"
    /\ \E i \in Ids :
         /\ att[i].temp.exists
         /\ att[i].temp.chunks > 0
         /\ att[i].temp.chunks < att[i].temp.of
         /\ ~att[i].payload.exists
    /\ \E j \in Ids : att[j].payload.exists

\* C7: when download_package has returned, no directory is left for an id
\* the record does not refer to, and the directories of the ids it refers to
\* exist and hold what they held before.
C7_OrphansPruned ==
    fpc = "done" =>
        \A i \in Ids :
            /\ i \notin refs.att => att[i] = NoAttachment
            /\ i \in refs.att =>
                 /\ att[i].dir
                 /\ before.att[i].payload.exists
                      => att[i].payload = before.att[i].payload
                 /\ before.att[i].xml = "complete" => att[i].xml = "complete"
            /\ i \notin refs.act => act[i] = NoActivity
            /\ i \in refs.act =>
                 /\ act[i].dir
                 /\ before.act[i].xml = "complete" => act[i].xml = "complete"

\* download_package returned after removing an attachment directory and a
\* collection activity directory, and keeping an attachment with its payload
C7_Witness ==
    /\ fpc = "done"
    /\ \E i \in Ids : before.att[i].dir /\ i \notin refs.att
    /\ \E i \in Ids : before.act[i].dir /\ i \notin refs.act
    /\ \E i \in refs.att : before.att[i].payload.exists

(***************************************************************************)
(* Claims about the SIP assembly                                           *)
(***************************************************************************)
\* the stages of generate_sip, in the order of the code
Stages ==
    <<"Clean", "ArchivesExtracted", "Validated", "Imported",
      "DerivedMetadataGenerated", "ProvenanceAdded", "DescriptionImported",
      "StructmapCompiled", "MetsCompiled", "Signed", "Compressed", "Done">>

StageIndex(s) ==
    IF s = "Idle" THEN 0
    ELSE IF s = "Failed" THEN 0 - 1
    ELSE CHOOSE k \in 1..Len(Stages) : Stages[k] = s

\* the stage an external command belongs to
StageOf(c) ==
    CASE c.cmd = "unzip" -> "ArchivesExtracted"
      [] c.cmd = "premis-event" ->
           IF c.event = "decompression" THEN "ArchivesExtracted"
           ELSE "ProvenanceAdded"
      [] c.cmd = "import-object" -> "Imported"
      [] c.cmd = "create-mix" -> "DerivedMetadataGenerated"
      [] c.cmd = "import-description" -> "DescriptionImported"
      [] c.cmd = "compile-structmap" -> "StructmapCompiled"
      [] c.cmd = "compile-mets" -> "MetsCompiled"
      [] c.cmd = "sign-mets" -> "Signed"
      [] c.cmd = "tar" -> "Compressed"

\* the files of the package when generate_sip is called
InitialFiles == PopulateFiles(payload, [i \in 1..Len(payload) |-> "file"])

\* a file that is neither on the whitelist nor a container archive
IsUnsupportedPayload(path) == IsUnsupported(path) /\ ~IsArchive(path)

\* generate_sip raised the domain error of check_files
UnsupportedAbort ==
    /\ stage = "Failed"
    /\ error.kind = "PreservationError"
    /\ error.error = "Unsupported file format"

\* C4 as stated: in a run on a package that holds a file with an unsupported
\* extension, whatever else the package holds (container archives included),
\* no external command is invoked and no log entry is written, and the run
\* ends with the unsupported-format error only.
C4_NoCommandBeforeAbort ==
    SelectSeq(InitialFiles, IsUnsupportedPayload) # <<>> =>
        /\ cmds = <<>>
        /\ log = <<>>
        /\ stage = "Failed" => UnsupportedAbort

\* C4, amended: (1) a run that ends with the unsupported-format error names
\* the lowercased extension of the first unsupported file of the file list,
\* and every external command before it is an unzip or a decompression
\* premis-event of ArchivesExtracted that succeeded, two per archive, logged
\* in extract-archive.log and premis-event.log; (2) on a package with an
\* unsupported file and no container archive the run invokes no external
\* command, writes no log entry, and ends with that error; (3) no run gets
\* past the check with an unsupported file in its file list.
C4_AbortAfterExtractionOnly ==
    /\ UnsupportedAbort =>
        /\ error.suffix
             = Lower(Head(SelectSeq(all_files, IsUnsupported)).suffix)
        /\ \A k \in DOMAIN cmds :
             /\ cmds[k].exited /\ cmds[k].rc = 0
             /\ StageOf(cmds[k]) = "ArchivesExtracted"
        /\ \A k \in DOMAIN log :
             log[k] \in {"extract-archive.log", "premis-event.log"}
        /\ Len(cmds) = 2 * Len(ArchiveFiles(InitialFiles))
        /\ Len(log) = Len(cmds)
    /\ (/\ ArchiveFiles(InitialFiles) = <<>>
        /\ SelectSeq(InitialFiles, IsUnsupported) # <<>>) =>
        /\ cmds = <<>>
        /\ log = <<>>
        /\ stage \in {"Idle", "Clean", "ArchivesExtracted", "Failed"}
        /\ stage = "Failed" =>
             /\ UnsupportedAbort
             /\ error.suffix
                  = Lower(Head(SelectSeq(InitialFiles, IsUnsupported)).suffix)
    /\ StageIndex(stage) >= StageIndex("Validated") =>
         SelectSeq(all_files, IsUnsupported) = <<>>

\* a package with the file payload.WAD and no archive: the run was aborted
\* with "Unsupported file format: wad" and nothing was invoked
C4_Witness ==
    /\ UnsupportedAbort
    /\ error.suffix = "wad"
    /\ ArchiveFiles(InitialFiles) = <<>>
    /\ \E k \in DOMAIN InitialFiles : InitialFiles[k].suffix = "WAD"
    /\ cmds = <<>>

\* C5, in a state: every external command before another one returned 0 and
\* belongs to the same or an earlier stage; a command belongs to the stage
\* that follows the last completed one (so two commands are never running
\* together, and a stage starts only when the one before is complete); a
\* command that failed has ended the run.
C5_OneAtATime ==
    /\ \A j \in DOMAIN cmds : \A i \in 1..(j - 1) :
         /\ cmds[i].exited /\ cmds[i].rc = 0
         /\ StageIndex(StageOf(cmds[i])) <= StageIndex(StageOf(cmds[j]))
    /\ stage # "Failed" =>
         \A k \in DOMAIN cmds :
             /\ StageIndex(StageOf(cmds[k])) <= StageIndex(stage) + 1
             /\ ~cmds[k].exited =>
                  StageIndex(StageOf(cmds[k])) = StageIndex(stage) + 1
    /\ (\E k \in DOMAIN cmds : cmds[k].rc = 1) => stage = "Failed"
    /\ stage \in {"Failed", "Done"} => ~CommandRunning

\* C5, in a step: the stage moves to the next one of the fixed order or to
\* "Failed", and a run that failed or is done invokes nothing more.
C5_NextStageOrFailed ==
    /\ stage' # stage =>
         /\ stage \notin {"Failed", "Done"}
         /\ \/ stage' = "Failed"
            \/ StageIndex(stage') = StageIndex(stage) + 1
    /\ stage \in {"Failed", "Done"} => cmds' = cmds /\ log' = log

\* C5: every run of generate_sip goes through the stages Clean,
\* ArchivesExtracted, Validated, Imported, DerivedMetadataGenerated,
\* ProvenanceAdded, DescriptionImported, StructmapCompiled, MetsCompiled,
\* Signed, Compressed, Done in this order, one external command at a time,
\* each stage after the commands of the stages before it returned 0, and the
\* first failure ends the run.
C5_StrictlySequential == []C5_OneAtATime /\ [][C5_NextStageOrFailed]_vars

\* a run that extracted an archive, created MIX metadata and reached Done
C5_Witness ==
    /\ stage = "Done"
    /\ \E k \in DOMAIN cmds : cmds[k].cmd = "unzip"
    /\ \E k \in DOMAIN cmds : cmds[k].cmd = "create-mix"
    /\ \A k \in DOMAIN cmds : cmds[k].exited /\ cmds[k].rc = 0

\* C10: when import-object exits nonzero it is the last command of the run,
\* the run has failed, and the exception of the run is either a detector's
\* domain error or the original CalledProcessError.
C10_ClassifiedOrOriginal ==
    \A k \in DOMAIN cmds :
        (cmds[k].cmd = "import-object" /\ cmds[k].rc = 1) =>
            /\ k = Len(cmds)
            /\ stage = "Failed"
            /\ error.kind \in {"PreservationError", "CalledProcessError"}

(***************************************************************************)
(* Claims about the error detectors                                        *)
(***************************************************************************)
\* the detectors as the specification lists them: error code, subcommand
\* filter, extension filter (empty: no filter) and stderr markers
DetectorTable ==
    <<[code |-> "TIFF file failed JHOVE validation", cmd |-> "import-object",
       exts |-> {}, markers |-> {ValidatorReturnedError, TiffHul}],
      [code |-> "Multi-page TIFF not allowed", cmd |-> "import-object",
       exts |-> {"tif", "tiff"}, markers |-> {MultipleStreams}],
      [code |-> "JPEG MIME type detection failed", cmd |-> "import-object",
       exts |-> {"jpg", "jpeg"}, markers |-> {MimeNotSupported}],
      [code |-> "MPO JPEG files not supported", cmd |-> "import-object",
       exts |-> {"jpg", "jpeg"}, markers |-> {MpoConflict}]>>

\* the filters and the markers of detector k all match the failure
Matches(k, f) ==
    /\ f.cmd = DetectorTable[k].cmd
    /\ DetectorTable[k].exts # {} => Lower(f.target.suffix) \in DetectorTable[k].exts
    /\ DetectorTable[k].markers \subseteq f.stderr.has

Matching(f) == {k \in DOMAIN DetectorTable : Matches(k, f)}

\* C11: for every failed invocation the classifier yields the error code of
\* the first detector of the list whose subcommand filter, extension filter
\* and markers match, and nothing (the check returns) when none matches.
C11_FirstMatchingDetector ==
    classified # NotClassified =>
        classified = IF Matching(failure) = {} THEN Pass
                     ELSE PreservationError(
                              DetectorTable[Min(Matching(failure))].code, "")

(***************************************************************************)
(* Claims about the extraction of archives                                 *)
(***************************************************************************)
\* C12: when the ArchivesExtracted stage is complete, and until check_files
\* has looked at the extensions, no file of the package's file list is
\* recognized as a container archive, also when an archive held an archive.
C12_NestedArchivesExpanded ==
    stage = "ArchivesExtracted" => ArchiveFiles(all_files) = <<>>

\* command k of the run is an unzip that exited 0
Extracted(k) ==
    /\ cmds[k].cmd = "unzip"
    /\ cmds[k].exited
    /\ cmds[k].rc = 0

\* command k of the run is the decompression premis-event for the path t
DecompressionEvent(k, t) ==
    /\ k \in DOMAIN cmds
    /\ cmds[k].cmd = "premis-event"
    /\ cmds[k].event = "decompression"
    /\ cmds[k].target = t

\* C13: for every archive of the file list generate_sip started with, once
\* its unzip has exited 0 the archive's path is a directory with the extracted
\* entries, and the next command of the run is the decompression premis-event
\* for that path; that event has returned 0 before the next archive is
\* extracted and before the stage is complete, and until the unzip has exited
\* 0 the archive is still a file.
C13_ReplacedThenEvent ==
    /\ \A k \in DOMAIN cmds :
         /\ cmds[k].cmd = "unzip" =>
              \E n \in DOMAIN ArchiveFiles(InitialFiles) :
                  ArchiveFiles(InitialFiles)[n] = cmds[k].target
         /\ Extracted(k) =>
              /\ fs[cmds[k].target.id] = "dir"
              /\ DecompressionEvent(k + 1, cmds[k].target)
              /\ \A n \in DOMAIN payload[cmds[k].target.id].inner :
                   \E e \in DOMAIN AttachmentEntries(payload, fs, cmds[k].target.id) :
                       /\ AttachmentEntries(payload, fs, cmds[k].target.id)[e].sub = n
                       /\ AttachmentEntries(payload, fs, cmds[k].target.id)[e].suffix
                            = payload[cmds[k].target.id].inner[n]
         /\ (cmds[k].cmd = "unzip" /\ ~Extracted(k)) =>
              fs[cmds[k].target.id] # "dir"
         /\ (Extracted(k) /\ \E j \in DOMAIN cmds : j > k + 1) =>
              cmds[k + 1].exited /\ cmds[k + 1].rc = 0
    /\ StageIndex(stage) >= StageIndex("ArchivesExtracted") =>
         \A n \in DOMAIN ArchiveFiles(InitialFiles) :
             /\ fs[ArchiveFiles(InitialFiles)[n].id] = "dir"
             /\ \E k \in DOMAIN cmds :
                  /\ Extracted(k)
                  /\ DecompressionEvent(k + 1, ArchiveFiles(InitialFiles)[n])
                  /\ cmds[k + 1].exited /\ cmds[k + 1].rc = 0
    /\ \A i \in DOMAIN fs :
         fs[i] = "dir" =>
             \E k \in DOMAIN cmds : Extracted(k) /\ cmds[k].target.id = i

\* two archives were extracted, each followed by its decompression event, and
\* the files were validated
C13_Witness ==
    /\ stage = "Validated"
    /\ Len(ArchiveFiles(InitialFiles)) = 2
    /\ Extracted(1) /\ DecompressionEvent(2, cmds[1].target)
    /\ Extracted(3) /\ DecompressionEvent(4, cmds[3].target)

(***************************************************************************)
(* Claims about the arguments of compile-mets                              *)
(***************************************************************************)
\* the date the caller supplied: the datetime it passed, or the date its
\* ISO 8601 option denotes
Supplied(d) ==
    IF call.entry # "cli" THEN d
    ELSE [local |-> d.local,
          tz |-> CASE d.zone = "" -> "naive"
                   [] d.zone \in {"Z", "+00:00"} -> "UTC"
                   [] OTHER -> d.zone]

IsSupplied(d) == d \notin {NoDate, NoOption}

\* the date an argument of compile-mets denotes
Denoted(text) ==
    [local |-> text.local,
     tz |-> CASE text.zone = "" -> "naive"
              [] text.zone = "+00:00" -> "UTC"
              [] OTHER -> text.zone]

\* C14, in a state: compile-mets is invoked with record status "update" when
\* the run is an update run and "submission" otherwise, with the creation
\* date the caller supplied and with the modification date the caller
\* supplied.
C14_MetsArguments ==
    mets # NoMets =>
        /\ mets.record_status = (IF call.update THEN "update" ELSE "submission")
        /\ IsSupplied(call.create_date) =>
             Denoted(mets.create_date) = Supplied(call.create_date)
        /\ IsSupplied(call.modify_date) =>
             /\ mets.last_moddate # NoOption
             /\ Denoted(mets.last_moddate) = Supplied(call.modify_date)

\* C14, in a step: once create_sip or generate_sip has a date, no step up to
\* the invocation changes it.
C14_DatesKept ==
    /\ (cpc # "cli" /\ frame.create_date # NoDate) =>
         frame'.create_date = frame.create_date
    /\ cpc # "cli" => frame'.modify_date = frame.modify_date
    /\ cpc # "cli" => frame'.update = frame.update

\* C14: record status, creation date and modification date of the
\* compile-mets invocation are the caller's, unaltered on the way.
C14_MetsCarriesCallerDates == []C14_MetsArguments /\ [][C14_DatesKept]_vars

\* an update run from the command line with both dates given, the creation
\* date with the zone designator Z
C14_Witness ==
    /\ mets # NoMets
    /\ call.entry = "cli"
    /\ call.update
    /\ IsSupplied(call.create_date) /\ call.create_date.zone = "Z"
    /\ IsSupplied(call.modify_date)
    /\ mets.record_status = "update"

\* C15: an update run never invokes compile-mets without a modification date.
C15_UpdateHasModificationDate ==
    (mets # NoMets /\ mets.record_status = "update") =>
        mets.last_moddate # NoOption

\* C16: the OBJID and the CONTENTID given to compile-mets are determined by
\* the record id alone, whatever the update flag, the dates, the SIP id and
\* the modification date of the record.
C16_IdentifiersOfRecordId ==
    mets # NoMets =>
        /\ mets.objid = <<"Passari_Object_", call.object_id>>
        /\ mets.contentid = <<"Object_", call.object_id>>

\* an update run with a SIP id, for a record that was modified at the later
\* of the dates
C16_Witness ==
    /\ mets # NoMets
    /\ call.update
    /\ call.sip_id = "b"
    /\ call.modified = MaxDate
    /\ call.object_id = NumObjects

(***************************************************************************)
(* Claims about the PREMIS events                                          *)
(***************************************************************************)
\* the events the derivation rules give for the documents docs
RuleEvents(docs, dir, event_type, detail, migration) ==
    LET keep == {i \in 1..Len(docs) :
                    /\ docs[i].created_date # NoCreated
                    /\ migration => /\ docs[i].created_date = [year |-> 2018,
                                                               month |-> 11]
                                    /\ docs[i].created_user = "ZET_DÜ"}
        RECURSIVE From(_)
        From(i) == IF i > Len(docs) THEN <<>>
                   ELSE (IF i \in keep
                         THEN <<PremisEvent(event_type, docs[i].created_date,
                                            detail, <<dir, i>>)>>
                         ELSE <<>>) \o From(i + 1)
    IN  From(1)

\* the concatenation the derivation rules describe, for the package p
Concatenation(p) ==
    LET o == p.museum_object
    IN  (IF o.created_date # NoCreated
         THEN <<PremisEvent("creation", o.created_date,
                            "Object database entry creation", NoTarget)>>
         ELSE <<>>)
        \o RuleEvents(p.attachments, "attachments", "creation",
                      "Multimedia attachment creation", FALSE)
        \o (IF o.created_date = [year |-> 2018, month |-> 11]
               /\ o.created_user = "ZET_DÜ"
            THEN <<PremisEvent("transfer", o.created_date,
                               "Object Musketti migration", NoTarget)>>
            ELSE <<>>)
        \o RuleEvents(p.attachments, "attachments", "transfer",
                      "Multimedia attachment Musketti migration", TRUE)
        \o RuleEvents(p.collection_activities, "collection_activities",
                      "creation", "CollectionActivity creation", FALSE)
        \o <<PremisEvent("creation", LidoMtime, "LIDO document creation",
                         <<"reports", 0>>)>>

\* C20: for every package state, get_premis_events returns exactly the
\* concatenation, in the fixed order, of the record creation event, the
\* attachments' creation events, the record transfer event, the attachments'
\* transfer events, the activities' creation events and the creation event of
\* the descriptive document, which is last
C20_ReturnsConcatenation ==
    premis_events # NotDerived =>
        premis_events = EventsReturned(Concatenation(museum_package))

\* the same for the packages whose record has a creation timestamp
C20_ReturnsConcatenationWhenCreated ==
    /\ premis_events # NotDerived
    /\ museum_package.museum_object.created_date # NoCreated
    => premis_events = EventsReturned(Concatenation(museum_package))

\* a record in the migration month, an attachment with and one without a
\* creation timestamp, and an activity with one
C20_Mixed ==
    /\ premis_events # NotDerived
    /\ IsMigration(museum_package.museum_object)
    /\ Len(museum_package.attachments) = 2
    /\ museum_package.attachments[1].created_date = NoCreated
    /\ IsMigration(museum_package.attachments[2])
    /\ Len(museum_package.collection_activities) = 1
    /\ museum_package.collection_activities[1].created_date # NoCreated
    /\ Len(premis_events.events) = 6

(***************************************************************************)
(* Claims about the logs and the workspace                                 *)
(***************************************************************************)
\* the log of the stage that runs the command cmd
StageLog(cmd) ==
    CASE cmd = "unzip" -> "extract-archive.log"
      [] cmd = "premis-event" -> "premis-event.log"
      [] cmd = "import-object" -> "import-object.log"
      [] cmd = "create-mix" -> "create-mix.log"
      [] cmd = "import-description" -> "import-description.log"
      [] cmd = "compile-structmap" -> "compile-structmap.log"
      [] cmd = "compile-mets" -> "compile-mets.log"
      [] cmd = "sign-mets" -> "sign-mets.log"
      [] OTHER -> "compress.log"

\* the invocations that exit in a step
Exiting == {k \in 1..Len(cmds) : ~cmds[k].exited /\ cmds'[k].exited}

\* C18: every invocation appends exactly one entry to the log of its stage,
\* whether it exits zero or nonzero, and the entry is there when the failure
\* is raised; no step of a run, Clean included, removes or rewrites an entry
C18_OneEntryPerInvocation ==
    [][IF Exiting = {}
       THEN disk'.logs = disk.logs
       ELSE \E k \in Exiting :
               /\ Exiting = {k}
               /\ disk'.logs =
                      Append(disk.logs,
                             [file |-> StageLog(cmds'[k].cmd),
                              cmd |-> cmds'[k].cmd,
                              stderr |-> cmds'[k].stderr])]_vars

\* a run on a package with an older log entry failed in its second command or
\* later: the older entry is first, the entry of the failed command is last
C18_Witness ==
    /\ stage = "Failed" /\ error = CalledProcessError
    /\ Len(cmds) >= 2
    /\ cmds[1].rc = 0 /\ cmds[Len(cmds)].rc = 1
    /\ Len(disk.logs) = Len(cmds) + 1
    /\ disk.logs[1].cmd = "import-object"
    /\ disk.logs[Len(disk.logs)].cmd = cmds[Len(cmds)].cmd
    /\ disk.logs[Len(disk.logs)].file = StageLog(cmds[Len(cmds)].cmd)

\* what is on disk under sip/reports and sip/attachments
OnDisk(p, f) ==
    LET entries == ReportFiles \o AttachmentDirGlob(p, f, 1)
    IN  {entries[k] : k \in 1..Len(entries)}

\* C19: Clean leaves the workspace existing and empty whatever it held and
\* whether it existed, leaves the payload files and the logs as they were, and
\* makes all_files exactly the regular files under reports and attachments
C19_CleanResetsWorkspaceOnly ==
    [][(stage = "Idle" /\ stage' = "Clean") =>
          /\ disk'.workspace = [exists |-> TRUE, files |-> {}]
          /\ payload' = payload /\ fs' = fs
          /\ disk'.logs = disk.logs /\ disk'.sip = disk.sip
          /\ {all_files'[k] : k \in 1..Len(all_files')}
                 = {e \in OnDisk(payload', fs') : ~e.isdir}
          /\ Cardinality({all_files'[k] : k \in 1..Len(all_files')})
                 = Len(all_files')]_vars

\* Clean ran on a package whose workspace held the output of an older run
\* (the one with one older log entry) and that has payload files
C19_Witness ==
    /\ stage = "Clean" /\ cmds = <<>>
    /\ Len(disk.logs) = 1
    /\ disk.workspace = [exists |-> TRUE, files |-> {}]
    /\ Len(payload) = MaxFiles
    /\ Len(all_files) = 2 + 2 * MaxFiles

(***************************************************************************)
(* Claims about packages of one record                                     *)
(***************************************************************************)
\* x and y are packages of the same record id with different variant ids
Variants(x, y) ==
    /\ x # y
    /\ museum_packages[x].object_id = museum_packages[y].object_id
    /\ museum_packages[x].sip_id # museum_packages[y].sip_id

\* the step is an operation of create_sip on the package x
OperationOf(x) == ppc'[x] # ppc[x]

\* C17: two packages of the same record id with different variant ids have
\* distinct archive paths, and an operation on one of them leaves the
\* workspace, the payload tree and the archive of the other unchanged
C17_VariantsIndependent ==
    [][\A x, y \in 1..2 :
          Variants(x, y) /\ OperationOf(x) =>
              LET other == museum_packages[y]
              IN  /\ SipArchivePath(museum_packages[x]) # SipArchivePath(other)
                  /\ package_dir'[WorkspaceDir(other)]
                         = package_dir[WorkspaceDir(other)]
                  /\ package_dir'[SipDir(other)] = package_dir[SipDir(other)]
                  /\ package_dir'[SipArchivePath(other)]
                         = package_dir[SipArchivePath(other)]]_vars

\* the part of C17 about the archives
C17_ArchivesIndependent ==
    [][\A x, y \in 1..2 :
          Variants(x, y) /\ OperationOf(x) =>
              LET other == museum_packages[y]
              IN  /\ SipArchivePath(museum_packages[x]) # SipArchivePath(other)
                  /\ package_dir'[SipArchivePath(other)]
                         = package_dir[SipArchivePath(other)]]_vars

\* the packages of two records are independent
C17_RecordsIndependent ==
    [][\A x, y \in 1..2 :
          /\ museum_packages[x].object_id # museum_packages[y].object_id
          /\ OperationOf(x)
          => LET other == museum_packages[y]
             IN  /\ package_dir'[WorkspaceDir(other)]
                        = package_dir[WorkspaceDir(other)]
                 /\ package_dir'[SipDir(other)] = package_dir[SipDir(other)]
                 /\ package_dir'[SipArchivePath(other)]
                        = package_dir[SipArchivePath(other)]]_vars

\* the assembly of a variant failed because the other variant cleaned the
\* workspace they share
C17_VariantLostItsWorkspace ==
    \E x, y \in 1..2 :
        /\ Variants(x, y)
        /\ ppc[x] = "Failed"
        /\ ppc[y] # "idle"

(***************************************************************************)
(* More claims about the PREMIS events                                     *)
(***************************************************************************)
\* C21: for a package whose record has no creation timestamp,
\* get_premis_events completes, and its list holds no record creation event,
\* no record transfer event, and every event of the other rules
C21_NoCreationDateCompletes ==
    /\ premis_events # NotDerived
    /\ museum_package.museum_object.created_date = NoCreated
    => /\ premis_events.raised = ""
       /\ \A k \in 1..Len(premis_events.events) :
              premis_events.events[k].event_target # NoTarget
       /\ premis_events.events =
              RuleEvents(museum_package.attachments, "attachments",
                         "creation", "Multimedia attachment creation", FALSE)
              \o RuleEvents(museum_package.attachments, "attachments",
                            "transfer",
                            "Multimedia attachment Musketti migration", TRUE)
              \o RuleEvents(museum_package.collection_activities,
                            "collection_activities", "creation",
                            "CollectionActivity creation", FALSE)
              \o <<PremisEvent("creation", LidoMtime,
                               "LIDO document creation", <<"reports", 0>>)>>

BothHashed == \A i \in 1..2 : hashes[i] # NotHashed

\* the field k is volatile
IsVolatile(k) == documents[1].fields[k].name \in VolatileFieldQueries

\* the documents differ outside the volatile fields: in the attribute, in a
\* non-volatile field, or in a text between the fields
DifferOutsideVolatile ==
    \/ documents[1].id # documents[2].id
    \/ \E k \in 1..Len(documents[1].fields) :
          \/ documents[1].fields[k].tail # documents[2].fields[k].tail
          \/ /\ ~IsVolatile(k)
             /\ documents[1].fields[k].text # documents[2].fields[k].text

\* C23: two documents that differ only in the content of volatile fields get
\* the same hash, and two documents that differ in a non-volatile field,
\* attribute or text get different hashes
C23_HashTellsNonVolatileApart ==
    BothHashed =>
        (hashes[1] = hashes[2] <=> ~DifferOutsideVolatile)

\* the part of C23 about the volatile fields
C23_VolatileIgnored ==
    BothHashed /\ ~DifferOutsideVolatile => hashes[1] = hashes[2]

\* the other part of C23, for documents with the same text after each
\* volatile field
C23_NonVolatileToldApart ==
    /\ BothHashed
    /\ DifferOutsideVolatile
    /\ \A k \in 1..Len(documents[1].fields) :
           IsVolatile(k) =>
               documents[1].fields[k].tail = documents[2].fields[k].tail
    => hashes[1] # hashes[2]

\* two documents that differ in a volatile field only were hashed
C23_VolatileDiffers ==
    /\ BothHashed
    /\ ~DifferOutsideVolatile
    /\ documents[1] # documents[2]
    /\ Len(documents[1].fields) = MaxFields

(***************************************************************************)
(* Claims about the refresh of the session key file                        *)
(***************************************************************************)
\* the key file was touched in this step, for the response r
TouchedFor(r) == responses'[r].touches > responses[r].touches

\* C24: refresh_session_key changes the freshness timestamp of the key file
\* only, never the key, and sends no request; it touches the file at most
\* once for a response, at the first chunk of the body, and never for a
\* response whose body is not read
C24_TouchOnlyBumpsTimestamp ==
    [][/\ keyFile'.text = keyFile.text
       /\ keyFile'.exists = keyFile.exists
       /\ keyFile'.mtime # keyFile.mtime => \E r \in Responses : TouchedFor(r)
       /\ \A r \in Responses :
              /\ TouchedFor(r) =>
                     /\ sent' = sent
                     /\ keyFile'.mtime = clock
                     /\ responses[r].chunks = 0
                     /\ responses'[r].chunks = 1
              /\ responses'[r].touches <= 1
              /\ responses'[r].chunks = 0 => responses'[r].touches = 0]_vars

\* a response was read in two chunks and the file was touched once, later
\* than it was written; another response was rejected for its status
C24_Witness ==
    \E r, q \in Responses :
        /\ responses[r].chunks = 2 /\ responses[r].touches = 1
        /\ responses[q].pc = "rejected" /\ responses[q].touches = 0
        /\ keyFile = [exists |-> TRUE, text |-> 1,
                      mtime |-> SESSION_KEY_REGENERATE_TIMEOUT]

(***************************************************************************)
(* Claims about the answers to a payload request                           *)
(***************************************************************************)
\* download_attachment of i returns in this step after a 404
Returns404(i) == tasks[i].pc = "await_payload" /\ tasks'[i].pc = "ok"

\* download_attachment of i returns in this step after a body of length zero
ReturnsEmpty(i) ==
    tasks[i].pc = "reading" /\ att[i].temp.of = 0 /\ tasks'[i].pc = "ok"

\* C25: when the payload request is answered with 404 or with an empty body,
\* download_attachment returns, and then the attachment has its metadata
\* document and neither a payload file nor a temporary download file
C25_MetadataOnly ==
    [][\A i \in Ids :
          Returns404(i) \/ ReturnsEmpty(i) =>
              /\ att'[i].xml = "complete"
              /\ ~att'[i].payload.exists
              /\ ~att'[i].temp.exists]_vars

\* the same when no temporary file was there before the request
C25_MetadataOnlyWithoutLeftover ==
    [][\A i \in Ids :
          \/ Returns404(i) /\ ~att[i].temp.exists
          \/ ReturnsEmpty(i)
          => /\ att'[i].xml = "complete"
             /\ ~att'[i].payload.exists
             /\ ~att'[i].temp.exists]_vars

\* a download that was killed left a temporary file, and the next one was
\* answered with 404
C25_LeftoverAfter404 ==
    \E i \in Ids :
        /\ tasks[i].pc = "ok"
        /\ att[i].temp.exists /\ att[i].temp.chunks > 0
        /\ ~att[i].payload.exists

(***************************************************************************)
(* Claims about gather_or_raise_first                                      *)
(***************************************************************************)
\* the tasks that had failed when gather_or_raise_first resumed
FailedAtWake == {i \in DOMAIN woke : Failed(woke[i])}

\* C26: when several tasks fail, gather_or_raise_first raises the exception
\* of one of the tasks that failed, never a cancellation error or an error of
\* its own, and the exception of every failed task was logged before
C26_RaisesOneOfTheFailures ==
    gpc # "waiting" /\ Cardinality(FailedAtWake) >= 2 =>
        /\ gpc = "raised"
        /\ gathered.exc.kind = "task"
        /\ gathered.exc.id \in FailedAtWake
        /\ gathered.logged = FailedAtWake

\* the same when every task was done when gather_or_raise_first resumed
C26_RaisesOneOfTheFailuresAllDone ==
    /\ gpc # "waiting"
    /\ Cardinality(FailedAtWake) >= 2
    /\ \A i \in DOMAIN woke : ~Pending(woke[i])
    => /\ gpc = "raised"
       /\ gathered.exc.kind = "task"
       /\ gathered.exc.id \in FailedAtWake
       /\ gathered.logged = FailedAtWake

\* two tasks had failed and one had returned
C26_TwoFailedOneReturned ==
    /\ gpc = "raised"
    /\ Cardinality(FailedAtWake) = 2
    /\ \E i \in DOMAIN woke : woke[i].pc = "ok"
    /\ gathered.logged = FailedAtWake

(***************************************************************************)
(* Claims about clean_attachments                                          *)
(***************************************************************************)
\* C27: pruning does not raise when another process removes a directory it
\* has enumerated before it deletes it
C27_PruningToleratesRemoval ==
    gone # {} => prune.pc # "raised"

\* pruning does not raise when nothing else removes a directory
C27_PruningAloneCompletes ==
    gone = {} => prune.pc # "raised"

\* the directories left when pruning has completed are those of
\* self.attachments
C27_PrunedToAttachments ==
    prune.pc = "done" => pdirs \subseteq pkeep

\* another process removed an enumerated directory before is_dir() looked at
\* it, and pruning completed
C27_RemovedBeforeIsDir ==
    /\ prune.pc = "done"
    /\ gone # {}
    /\ gone \cap pkeep = {}

(***************************************************************************)
(* Claims about the JPEG version failures                                  *)
(***************************************************************************)
\* the failure classified is an import of a JPEG file whose stderr has the
\* marker m and no other
JpegImportWith(m) ==
    /\ classified # NotClassified
    /\ failure.cmd = "import-object"
    /\ FileExt(failure) \in {"jpg", "jpeg"}
    /\ failure.stderr.utf8
    /\ failure.stderr.has = {m}

\* C28: an import failure on a JPEG file is a PreservationError "JPEG version
\* not detected correctly" when stderr has "MIME type image/jpeg with version
\* JPEG image data is not supported." and "JPEG version not supported" when
\* it has "File format version is not supported."
C28_JpegVersionClassified ==
    /\ JpegImportWith(JpegVersionNotDetected) =>
           classified = PreservationError("JPEG version not detected correctly", "")
    /\ JpegImportWith(JpegVersionNotSupported) =>
           classified = PreservationError("JPEG version not supported", "")

\* the two JPEG failures that have a detector are classified
C28_JpegDetectorsClassify ==
    /\ JpegImportWith(MimeNotSupported) =>
           classified = PreservationError("JPEG MIME type detection failed", "")
    /\ JpegImportWith(MpoConflict) =>
           classified = PreservationError("MPO JPEG files not supported", "")

\* a JPEG version failure went through the detectors and none raised
C28_JpegVersionNotClassified ==
    /\ \/ JpegImportWith(JpegVersionNotDetected)
       \/ JpegImportWith(JpegVersionNotSupported)
    /\ classified = Pass

(***************************************************************************)
(* Claims about the filename check                                         *)
(***************************************************************************)
\* the tasks that had raised the filename error when gather_or_raise_first
\* resumed, and those that had raised anything
NonAsciiAtWake == {i \in Ids : Failed(nwoke[i]) /\ nwoke[i].exc = "PreservationError"}

FailuresAtWake == {i \in Ids : Failed(nwoke[i])}

\* download_attachment of a non-ASCII filename raises the filename error
\* once the document is cached, with no payload request and no payload file
RaisesBeforePayload ==
    \A i \in Ids :
        ~natt[i].ascii /\ natt[i].xml = "complete" /\ ~Pending(ntasks[i]) =>
            /\ ntasks[i].pc \in {"failed", "cancelled"}
            /\ ntasks[i].pc = "failed" => ntasks[i].exc = "PreservationError"
            /\ ~natt[i].requested
            /\ ~natt[i].payload

\* C29: download_attachment of a non-ASCII filename raises "Filename contains
\* non-ASCII characters" after the document is cached and before a payload
\* request, no payload file is made, and download_attachments fails with that
\* error
C29_NonAsciiFailsTheCycle ==
    /\ RaisesBeforePayload
    /\ npc # "gathering" /\ NonAsciiAtWake # {} /\ FailuresAtWake = NonAsciiAtWake =>
           npc = "raised" /\ nraised = "PreservationError"

\* the same for download_attachment alone
C29_RaisesBeforePayload == RaisesBeforePayload

\* the same for download_attachments when every task was done
C29_NonAsciiFailsTheCycleAllDone ==
    /\ npc # "gathering"
    /\ NonAsciiAtWake # {}
    /\ FailuresAtWake = NonAsciiAtWake
    /\ \A i \in Ids : ~Pending(nwoke[i])
    => npc = "raised" /\ nraised = "PreservationError"

\* a non-ASCII filename failed a cycle whose other attachment was downloaded
C29_NonAsciiNextToDownloaded ==
    /\ npc = "raised"
    /\ nraised = "PreservationError"
    /\ \E i \in Ids : natt[i].payload

(***************************************************************************)
(* Claims about the order and the identifiers of the imports               *)
(***************************************************************************)
\* the invocations of import-object in the run
Imports == {k \in DOMAIN cmds : cmds[k].cmd = "import-object"}

\* attachments first, collection activities second, reports third
ImportGroup(path) ==
    CASE path.dir = "attachments" -> 1
      [] path.dir = "collection_activities" -> 2
      [] OTHER -> 3

\* the kind of entity whose directory holds the path
EntityKind(path) ==
    CASE path.dir = "attachments" -> "Multimedia"
      [] path.dir = "collection_activities" -> "CollectionActivity"
      [] OTHER -> "Object"

\* the files of the package: those of populate_files and the documents of
\* the collection activities
FilesOnDisk ==
    {all_files[k] : k \in DOMAIN all_files}
        \cup {CollectionActivityFiles(activities)[k] : k \in 1..activities}

\* C30: the imports of attachment files come before those of collection
\* activity files, which come before those of the reports; once the stage
\* Imported is reached each file was imported exactly once; the identifier
\* of an import is <kind>:<id>:<relative path> of the entity whose directory
\* holds the file, and two imports never have the same identifier
C30_ImportOrderAndIdentifiers ==
    /\ \A k, l \in Imports :
           k < l => ImportGroup(cmds[k].target) <= ImportGroup(cmds[l].target)
    /\ stage = "Imported" =>
           \A path \in FilesOnDisk :
               Cardinality({k \in Imports : cmds[k].target = path}) = 1
    /\ \A o \in ObjectIds :
           /\ \A k \in Imports :
                  /\ ImportIdentifier(cmds[k].target, o).kind
                         = EntityKind(cmds[k].target)
                  /\ ImportIdentifier(cmds[k].target, o).id
                         = IF cmds[k].target.dir = "reports" THEN o
                           ELSE cmds[k].target.id
           /\ \A k, l \in Imports :
                  k # l => ImportIdentifier(cmds[k].target, o)
                               # ImportIdentifier(cmds[l].target, o)

\* the stage Imported was reached with a file of an extracted archive, a
\* collection activity and the reports
C30_Witness ==
    /\ stage = "Imported"
    /\ \E k \in Imports : cmds[k].target.sub > 0
    /\ \E k \in Imports : cmds[k].target.dir = "collection_activities"
    /\ \E k \in Imports : cmds[k].target.dir = "reports"

(***************************************************************************)
(* Claims about the termination of get_museum_session_key                  *)
(***************************************************************************)
\* the call of c has returned a key or raised the exception of its exchange
Settled(c) == callers[c].pc \in {"done", "raised"}

\* the service has issued all the keys of the behaviour
KeysExhausted == issued = MaxKeys

\* C31: every call of get_museum_session_key ends, whether the callers are
\* processes or coroutines of one event loop: no caller waits forever for
\* the FileLock
C31_EveryCallEnds ==
    <>(KeysExhausted \/ \A c \in Callers : Settled(c))

\* a coroutine spins in FileLock.acquire() while the holder of the lock is
\* suspended at its exchange
C31_LoopBlocked ==
    \E c, d \in Callers :
        /\ callers[c].pc = "lock"
        /\ callers[d].pc = "exchange"
        /\ lock = d

(***************************************************************************)
(* Claims about the values get_museum_session_key returns                  *)
(***************************************************************************)
\* the keys the service has issued: the one persisted before the behaviour
\* and those of the exchanges since
IssuedKeys == {Str(n) : n \in 1..(issued + 1)}

\* C32: get_museum_session_key returns only keys issued by a credential
\* exchange: a caller that reads the key file without the lock while another
\* caller writes it gets the old key or the new one, never an empty one
C32_ReturnsIssuedKeys ==
    \A c \in Callers : callers[c].pc = "done" => callers[c].result \in IssuedKeys

\* what a call returns is an issued key or the empty text of the key file
\* between the truncation and the write of write_text
C32_ReturnsIssuedOrEmpty ==
    \A c \in Callers :
        callers[c].pc = "done" => callers[c].result \in IssuedKeys \cup {Str(0)}

\* a call returned the empty text as a fresh key while the writer was
\* between the truncation and the write
C32_EmptyReturned ==
    \E c, d \in Callers :
        /\ callers[c].pc = "done"
        /\ callers[c].path = "cached"
        /\ callers[c].result = Str(0)
        /\ callers[d].pc = "write2"

(***************************************************************************)
(* Claims about a download_package that fails                              *)
(***************************************************************************)
\* the ids that have a directory
Dirs(a) == {i \in Ids : a[i].dir}

\* gather_or_raise_first resumes in the given step of download_package with
\* a task that failed
ResumesWithFailure(step) ==
    /\ fpc = step
    /\ \E i \in Ids : Failed(tasks[i])
    /\ fpc' \notin {step, "crashed"}

\* C33 as stated: when download_package has failed because a task raised, no
\* directory of an attachment or of a collection activity that was there
\* when it began has been removed
C33_FailedCyclePrunesNothing ==
    fpc = "failed" /\ wake.failed # {} =>
        /\ Dirs(before.att) \subseteq Dirs(att)
        /\ Dirs(before.act) \subseteq Dirs(act)

\* C33 as amended: when a task of download_attachments fails, no directory
\* is removed and download_collection_activities and download_reports are
\* not started; when a task of download_collection_activities fails, no
\* directory of a collection activity is removed, no directory of an
\* attachment is removed by that step, and download_reports is not started.
\* The attachment directories pruned by download_attachments before
\* download_collection_activities failed stay pruned.
C33_FailedStepPrunesNothing ==
    [][/\ ResumesWithFailure("attachments") =>
              /\ fpc' = "failed"
              /\ att' = att /\ act' = act
              /\ Dirs(before.att) \subseteq Dirs(att')
              /\ act' = before.act
              /\ requests' = requests
              /\ \A r \in requests' : r[1] \notin {"CollectionActivity", "lido"}
              /\ \A i \in Ids : tasks'[i] = NoTask
       /\ ResumesWithFailure("activities") =>
              /\ fpc' = "failed"
              /\ att' = att /\ act' = act
              /\ Dirs(before.act) \subseteq Dirs(act')
              /\ requests' = requests
              /\ <<"lido", 0>> \notin requests'
              /\ \A i \in Ids : tasks'[i] = NoTask]_vars

\* download_collection_activities failed after download_attachments had
\* pruned the directory of an attachment
C33_Witness ==
    /\ fpc = "failed"
    /\ raised.kind = "task"
    /\ wake.failed # {}
    /\ \E i \in Ids : before.att[i].dir /\ ~att[i].dir
    /\ Dirs(before.act) \subseteq Dirs(act)

(***************************************************************************)
(* Claims about generate_sip called again on the same package              *)
(***************************************************************************)
\* the attachments whose archive has been expanded
ExpandedArchives == {i \in Zips : rfs[i].archive = "dir"}

\* C34: in a run that reaches Done the workspace holds a decompression event
\* for every expanded archive, also for one an earlier run expanded
C34_DecompressionEventInEveryRun ==
    rstage = "Done" => ExpandedArchives \subseteq rworkspace

\* the same for the archives the run itself expanded
C34_DecompressionEventOfThisRun ==
    rstage = "Done" => expanded \subseteq rworkspace

\* a run reached Done with an archive that an earlier run had expanded
C34_DoneAfterEarlierExpansion ==
    /\ rstage = "Done"
    /\ runs > 1
    /\ ExpandedArchives # {}
    /\ expanded = {}

\* C35: after any sequence of runs a file is at sip_archive_path only if the
\* most recent run reached Done
C35_ArchiveOnlyAfterDone ==
    rstage \in {"Done", "Failed"} /\ rtar # 0 => rstage = "Done"

\* the file at sip_archive_path after a run that reached Done was written by
\* that run, and a run that failed wrote none
C35_ArchiveOfLastDoneRun ==
    /\ rstage = "Done" => rtar = runs
    /\ rtar <= runs
    /\ rstage = "Failed" => rtar < runs

\* a run failed and the archive of an earlier run is at sip_archive_path
C35_StaleArchive ==
    /\ rstage = "Failed"
    /\ rtar # 0
    /\ rtar < runs

\* C36: when unzip fails the archive is still in place, and a later run
\* extracts it again: generate_sip does not fail on the <archive>.extract
\* directory the failed run left
C36_ExtractionRetried ==
    /\ \A i \in Zips : rfs[i].extract => rfs[i].archive = "file"
    /\ rerror # "FileExistsError"

\* the archive is in place as long as its <archive>.extract directory is
C36_ArchiveKept ==
    \A i \in Zips : rfs[i].extract => rfs[i].archive = "file"

\* the run after a failed unzip failed at mkdir, with nothing extracted
C36_FailedAtMkdir ==
    /\ rstage = "Failed"
    /\ rerror = "FileExistsError"
    /\ runs > 1
    /\ expanded = {}

(***************************************************************************)
(* Claims about the results of a search response                           *)
(***************************************************************************)
\* C37: computing the hash leaves the document as it was, and reading the
\* results of one response twice gives the same modification date and the
\* same hash
C37_HashLeavesDocument ==
    /\ results # <<>> => etree = response
    /\ Len(results) = 2 => results[1] = results[2]

\* reading the results twice gives the same hash
C37_SameHashTwice ==
    Len(results) = 2 => results[1].xml_hash = results[2].xml_hash

\* a document without volatile fields is left as it was
C37_NonVolatileLeft ==
    (\A k \in DOMAIN response.fields :
         response.fields[k].name \notin VolatileFieldQueries)
    => etree = response

\* the second reading found no modification date
C37_ModifiedDateLost ==
    /\ Len(results) = 2
    /\ results[1].modified_date # "None"
    /\ results[2].modified_date = "None"

(***************************************************************************)
(* Claims about submit_sip                                                 *)
(***************************************************************************)
\* C38: a file under the final name exists in the transfer directory only
\* if the whole archive was uploaded: bytes are written to the ".incomplete"
\* name only, and the final name appears by the rename that follows the
\* completed upload
C38_FinalNameOnlyWhenUploaded ==
    /\ [](sfinal.exists => sfinal.size = sarchive.size)
    /\ [][sfinal' # sfinal =>
            /\ spc = "uploaded"
            /\ stemp.size = sarchive.size
            /\ sfinal' = stemp]_vars

\* a later submission failed in the middle of the transfer, next to the
\* archive an earlier one uploaded
C38_FailedMidTransfer ==
    /\ spc = "failed"
    /\ sfinal.exists
    /\ stemp.exists
    /\ stemp.size < sarchive.size

(***************************************************************************)
(* Claims about confirm_sip                                                *)
(***************************************************************************)
\* C39: a status other than "accepted" or "rejected" is refused before
\* anything is changed; the package directory is removed only after the
\* logs are in the archive directory and, with log entries enabled, the
\* event is in the preservation field; after a failure the package
\* directory still exists
C39_RemovedOnlyAfterArchived ==
    /\ cstatus \notin {"accepted", "rejected"} =>
          /\ confpc \in {"start", "invalid"}
          /\ cdir /\ ~cgzipped /\ ~carchived /\ ~cstored
          /\ cevents = <<>>
    /\ ~cdir => carchived /\ (clogentries => cstored)
    /\ confpc = "failed" => cdir

\* the event could not be stored after the logs were copied
C39_FailedAfterCopy ==
    /\ confpc = "failed"
    /\ carchived
    /\ clogentries
    /\ ~cstored
    /\ cdir

\* the directory was removed with the event stored
C39_RemovedWithEvent ==
    /\ confpc = "done"
    /\ clogentries
    /\ cstored
    /\ ~cdir

====
